---- MODULE Spec2Model ----
(***************************************************************************)
(* Verification model of the forecasting dashboard front end:              *)
(*   - CandlestickChart  (series normalizer and multi-series aligner),     *)
(*   - PerformanceMetrics (overall performance scorer),                     *)
(*   - TechnicalIndicators (indicator engine).                             *)
(*                                                                         *)
(* Conventions.                                                            *)
(*   * A JavaScript array is a sequence.                                   *)
(*   * A `date` field holds the epoch-millisecond instant that             *)
(*     `new Date(d.date).getTime()` returns; dates are whole seconds, so   *)
(*     `getTime() / 1000` is the exact integer quotient.                   *)
(*   * A JavaScript Map is the sequence of its <<key, value>> entries in   *)
(*     insertion order.                                                    *)
(*   * An optional object prop is a sequence of length 0 (null) or 1.      *)
(*     For array props the code tests `!x || x.length === 0` everywhere,   *)
(*     so null and the empty array are the same value <<>>.                *)
(***************************************************************************)
EXTENDS Integers, Sequences, FiniteSets, TLC

VARIABLES
    \* ---- CandlestickChart props
    priceData, forecasts, timeRange, predictionErrors, portfolioValueHistory,
    initialCapital,
    \* ---- CandlestickChart state and refs
    isFullscreen, chartReady,
    chart,               \* "none" | "live" | "removed": the chart behind chartRef
    candlestickSeries,   \* data held by candlestickSeriesRef.current
    volumeSeries, forecastSeries, confidenceSeries, errorSeries,
    portfolioValueSeries,
    effect,              \* what each data effect did in the last commit
    \* ---- PerformanceMetrics
    metrics,             \* the prop: <<>> (null) or <<object>>
    overallScore,        \* what calculateOverallScore returned in the last render
    scoreLabel,          \* the label rendered in the overall-score card
    \* ---- indicator functions called on their own
    fnCall, fnResult,
    \* ---- TechnicalIndicators
    tiPriceData,         \* the priceData prop of TechnicalIndicators
    indicators,          \* the `indicators` state: <<>> (null) or <<object>>
    \* ---- ForecastControls
    trainedModelId,      \* the prop: <<>> (null) or <<model id>>
    isGenerating,        \* the prop
    horizon, confidenceLevel,
    onGenerateForecast,  \* the calls the prop received: their number and
                         \* the arguments of the last one
    \* ---- App
    app,                 \* the useState values of App, by name
    tasks,               \* the handler calls waiting for an API promise
    started              \* number of handler calls that issued a request

chartVars == <<priceData, forecasts, timeRange, predictionErrors,
               portfolioValueHistory, initialCapital, isFullscreen, chartReady,
               chart, candlestickSeries, volumeSeries, forecastSeries,
               confidenceSeries, errorSeries, portfolioValueSeries, effect>>

scoreVars == <<metrics, overallScore, scoreLabel>>

fnVars == <<fnCall, fnResult>>

tiVars == <<tiPriceData, indicators>>

fcVars == <<trainedModelId, isGenerating, horizon, confidenceLevel,
            onGenerateForecast>>

appVars == <<app, tasks, started>>

vars == <<chartVars, scoreVars, fnVars, tiVars, fcVars, appVars>>

(***************************************************************************)
(* Bounds and input sets                                                   *)
(***************************************************************************)
MaxPrice == 3        \* longest priceData array

SeqsUpTo(S, n) == UNION {[1..k -> S] : k \in 0..n}

PricePoint(d, o, c, v) ==
    [date |-> d, open_price |-> o, high_price |-> 3, low_price |-> 1,
     close_price |-> c, volume |-> v]

\* two records share the instant 1000 and differ in everything else
PricePoints == {PricePoint(1000, 1, 2, 5), PricePoint(1000, 2, 1, 0),
                PricePoint(2000, 1, 2, 5)}

PriceInputs == SeqsUpTo(PricePoints, MaxPrice)

Forecast(n, base) ==
    [predictions |-> [j \in 1..n |-> base + j],
     confidence_intervals |-> [upper |-> [j \in 1..n |-> base + j + 2],
                               lower |-> [j \in 1..n |-> base + j - 2]]]

TimeRanges == {"1w", "1m"}

\* inputs of the whole-component specification: every prop is absent or
\* has one value; the arrays are out of time order
SmallPriceInputs ==
    {<<>>, <<PricePoint(2000, 1, 2, 5), PricePoint(1000, 2, 1, 0)>>}
SmallForecastInputs == {<<>>, <<Forecast(2, 10)>>}
SmallErrorInputs ==
    {<<>>, <<[prediction_index |-> 1, error_value |-> 3],
             [prediction_index |-> 0, error_value |-> 1]>>}
SmallPortfolioInputs ==
    {<<>>, <<[metric_date |-> 1500, total_value |-> 50],
             [metric_date |-> 1400, total_value |-> 60]>>,
           <<[metric_date |-> 1900, total_value |-> 0]>>}

(***************************************************************************)
(* JavaScript library behaviour                                            *)
(***************************************************************************)
\* Array.prototype.sort((a, b) => key(a) - key(b)): ascending and stable.
StableSort(s, key(_)) ==
    LET n == Len(s)
        rank(i) == 1 + Cardinality({j \in 1..n :
                          \/ key(s[j]) < key(s[i])
                          \/ key(s[j]) = key(s[i]) /\ j < i})
    IN  [r \in 1..n |-> s[CHOOSE i \in 1..n : rank(i) = r]]

\* Map.prototype.set: a key already present keeps its position and takes
\* the new value; a new key is appended.
MapSet(m, k, v) ==
    IF \E i \in 1..Len(m) : m[i][1] = k
    THEN [i \in 1..Len(m) |-> IF m[i][1] = k THEN <<k, v>> ELSE m[i]]
    ELSE Append(m, <<k, v>>)

\* forEach(... map.set(k, v)) over a sequence of <<k, v>> pairs.
RECURSIVE MapSetAll(_, _)
MapSetAll(m, entries) ==
    IF Len(entries) = 0 THEN m
    ELSE MapSetAll(MapSet(m, entries[1][1], entries[1][2]),
                   [i \in 1..(Len(entries) - 1) |-> entries[i + 1]])

\* Array.from(map.values())
MapValues(m) == [i \in 1..Len(m) |-> m[i][2]]

Abs(x) == IF x < 0 THEN -x ELSE x

(***************************************************************************)
(* JavaScript numbers.  A value is <<kind, v>>: a finite number is         *)
(* <<"num", v>> and stands for v / Scale (fixed point, results of          *)
(* multiplications and divisions rounded toward zero); the other values    *)
(* are NaN, +Infinity, -Infinity, undefined and null.                      *)
(***************************************************************************)
Scale == 10 * 10 * 10

N(v) == <<"num", v>>
Whole(i) == <<"num", i * Scale>>
NaN == <<"nan", 0>>
PosInf == <<"inf", 1>>
NegInf == <<"inf", -1>>
Undefined == <<"undefined", 0>>
Null == <<"null", 0>>

IsNum(x) == x[1] = "num"
IsInf(x) == x[1] = "inf"

\* An operand is evaluated once, before it is used: F at the value of x.
Once(x, F(_)) == CHOOSE r \in {F(v) : v \in {x}} : TRUE

\* ToNumber: undefined -> NaN, null -> 0
ToNumber(x) ==
    Once(x, LAMBDA v : IF v[1] = "undefined" THEN NaN
                       ELSE IF v[1] = "null" THEN N(0) ELSE v)

\* A binary operator on the numbers its two operands convert to.
Operands(a, b, F(_, _)) ==
    CHOOSE r \in {F(x, y) : x \in {ToNumber(a)}, y \in {ToNumber(b)}} : TRUE

\* ToBoolean: 0, NaN, undefined and null are falsy
Truthy(x) == Once(x, LAMBDA v : IsInf(v) \/ (IsNum(v) /\ v[2] # 0))

Sign(v) == IF v < 0 THEN -1 ELSE IF v > 0 THEN 1 ELSE 0

TruncDiv(a, b) == Sign(a) * Sign(b) * (Abs(a) \div Abs(b))

Neg(a) ==
    Once(ToNumber(a), LAMBDA x : IF x[1] = "nan" THEN NaN ELSE <<x[1], -x[2]>>)

Add(a, b) ==
    Operands(a, b, LAMBDA x, y :
        IF x[1] = "nan" \/ y[1] = "nan" THEN NaN
        ELSE IF IsInf(x) /\ IsInf(y) THEN (IF x[2] = y[2] THEN x ELSE NaN)
        ELSE IF IsInf(x) THEN x
        ELSE IF IsInf(y) THEN y
        ELSE N(x[2] + y[2]))

Sub(a, b) == Add(a, Neg(b))

Mul(a, b) ==
    Operands(a, b, LAMBDA x, y :
        IF x[1] = "nan" \/ y[1] = "nan" THEN NaN
        ELSE IF IsInf(x) \/ IsInf(y)
             THEN (IF Sign(x[2]) * Sign(y[2]) = 0 THEN NaN
                   ELSE <<"inf", Sign(x[2]) * Sign(y[2])>>)
        ELSE N(TruncDiv(x[2] * y[2], Scale)))

Div(a, b) ==
    Operands(a, b, LAMBDA x, y :
        IF x[1] = "nan" \/ y[1] = "nan" THEN NaN
        ELSE IF IsInf(x) THEN (IF IsInf(y) THEN NaN
                               ELSE <<"inf", x[2] * (IF y[2] < 0 THEN -1 ELSE 1)>>)
        ELSE IF IsInf(y) THEN N(0)
        ELSE IF y[2] = 0 THEN (IF x[2] = 0 THEN NaN ELSE <<"inf", Sign(x[2])>>)
        ELSE N(TruncDiv(x[2] * Scale, y[2])))

\* a < b
Lt(a, b) ==
    Operands(a, b, LAMBDA x, y :
        IF x[1] = "nan" \/ y[1] = "nan" THEN FALSE
        ELSE IF IsInf(x) THEN x[2] < 0 /\ ~(IsInf(y) /\ y[2] < 0)
        ELSE IF IsInf(y) THEN y[2] > 0
        ELSE x[2] < y[2])

\* a > b
Gt(a, b) == Lt(b, a)

\* a >= b
Ge(a, b) ==
    Operands(a, b, LAMBDA x, y :
        x[1] # "nan" /\ y[1] # "nan" /\ ~Lt(x, y))

\* a === b on numbers
StrictEq(a, b) == Once(a, LAMBDA x : x[1] # "nan" /\ x = b)

(***************************************************************************)
(* CandlestickChart: series normalizer                                     *)
(***************************************************************************)
\* new Date(item.date).getTime() / 1000
timestamp(item) == item.date \div 1000

filterDataByTimeRange(data, range) == data

\* variant of sortedData: comparator reversed (b - a)
sortedDataMutDesc(filteredData) ==
    StableSort(filteredData, LAMBDA d : 0 - d.date)

sortedData(filteredData) == StableSort(filteredData, LAMBDA d : d.date)

\* variant of dataMap: a timestamp already present keeps its first record
dataMapMutFirstWins(sorted) ==
    LET firstAt(i) == CHOOSE j \in 1..Len(sorted) :
                          /\ timestamp(sorted[j]) = timestamp(sorted[i])
                          /\ \A h \in 1..(j - 1) :
                                 timestamp(sorted[h]) # timestamp(sorted[i])
    IN  MapSetAll(<<>>, [i \in 1..Len(sorted) |->
                            <<timestamp(sorted[i]), sorted[firstAt(i)]>>])

dataMap(sorted) ==
    MapSetAll(<<>>, [i \in 1..Len(sorted) |->
                        <<timestamp(sorted[i]), sorted[i]>>])

\* variant of uniqueData: the sorted data without the Map
uniqueDataMutNoDedup(data, range) ==
    sortedData(filterDataByTimeRange(data, range))

uniqueData(data, range) ==
    MapValues(dataMap(sortedData(filterDataByTimeRange(data, range))))

candlestickData(u) ==
    [i \in 1..Len(u) |->
        [time |-> timestamp(u[i]), open |-> u[i].open_price,
         high |-> u[i].high_price, low |-> u[i].low_price,
         close |-> u[i].close_price]]

volumeData(u) ==
    MapValues(MapSetAll(<<>>, [i \in 1..Len(u) |->
        <<timestamp(u[i]),
          [time |-> timestamp(u[i]),
           value |-> IF u[i].volume # 0 THEN u[i].volume ELSE 0,
           color |-> IF u[i].close_price >= u[i].open_price
                     THEN "#00ff9f" ELSE "#ff4444"]>>]))

(***************************************************************************)
(* CandlestickChart: multi-series aligner                                  *)
(***************************************************************************)
lastTime(u) == timestamp(u[Len(u)])

\* A placement that starts at the last price point itself.
forecastTimeMutNoOffset(last, index) == last + index * 3600

forecastTime(last, index) == last + (index + 1) * 3600

forecastData(f, last) ==
    LET n == Len(f.predictions)
        forecastMap == MapSetAll(<<>>, [j \in 1..n |->
            <<forecastTime(last, j - 1),
              [time |-> forecastTime(last, j - 1),
               value |-> f.predictions[j]]>>])
    IN  StableSort(MapValues(forecastMap), LAMBDA p : p.time)

confidenceData(f, last) ==
    LET n == Len(f.predictions)
        upperEntries == [j \in 1..n |->
            <<forecastTime(last, j - 1),
              [time |-> forecastTime(last, j - 1),
               value |-> f.confidence_intervals.upper[j]]>>]
        \* index j - 1 -> reverseIndex = n - 1 - (j - 1)
        lowerEntries == [j \in 1..n |->
            <<forecastTime(last, n - j),
              [time |-> forecastTime(last, n - j),
               value |-> f.confidence_intervals.lower[n - j + 1]]>>]
        confidenceMap == MapSetAll(MapSetAll(<<>>, upperEntries), lowerEntries)
    IN  StableSort(MapValues(confidenceMap), LAMBDA p : p.time)

errorData(errors, last) ==
    [i \in 1..Len(errors) |->
        [time |-> forecastTime(last, errors[i].prediction_index),
         value |-> errors[i].error_value]]

\* let closestPricePoint = uniqueData[0]; for (const pricePoint of uniqueData)
\*   if (diff < minDiff) { minDiff = diff; closestPricePoint = pricePoint; }
RECURSIVE closestScan(_, _, _, _)
closestScan(u, metric, i, closest) ==
    IF i > Len(u) THEN closest
    ELSE closestScan(u, metric, i + 1,
             IF Abs(u[i].date - metric.metric_date)
                    < Abs(closest.date - metric.metric_date)
             THEN u[i] ELSE closest)

\* A scan that moves on to a later price point at an equal distance.
closestPricePointMutLastTie(u, metric) ==
    u[CHOOSE i \in 1..Len(u) :
          \A k \in 1..Len(u) :
              \/ Abs(u[i].date - metric.metric_date)
                     < Abs(u[k].date - metric.metric_date)
              \/ /\ Abs(u[i].date - metric.metric_date)
                        = Abs(u[k].date - metric.metric_date)
                 /\ i >= k]

closestPricePoint(u, metric) == closestScan(u, metric, 1, u[1])

portfolioData(history, u, capital) ==
    [i \in 1..Len(history) |->
        [time |-> timestamp(closestPricePoint(u, history[i])),
         value |-> IF history[i].total_value # 0 THEN history[i].total_value
                   ELSE IF capital # 0 THEN capital ELSE 10000]]

uniquePortfolioData(history, u, capital) ==
    LET pd == portfolioData(history, u, capital)
        portfolioMap == MapSetAll(<<>>, [i \in 1..Len(pd) |->
                                            <<pd[i].time, pd[i]>>])
    IN  StableSort(MapValues(portfolioMap), LAMBDA p : p.time)

(***************************************************************************)
(* CandlestickChart: effects.  c is the component's chart-side state, P    *)
(* its props.  Each data effect records in c.effect what it did:           *)
(*   "skipped"  returned at a guard without touching its series,           *)
(*   "cleared"  called setData([]),                                        *)
(*   "set"      called setData with the data computed from P,              *)
(* and "idle" means the effect was not run in the last commit.             *)
(***************************************************************************)
Props == [priceData |-> priceData, forecasts |-> forecasts,
          timeRange |-> timeRange, predictionErrors |-> predictionErrors,
          portfolioValueHistory |-> portfolioValueHistory,
          initialCapital |-> initialCapital]

ChartSide == [chartReady |-> chartReady, chart |-> chart,
              candlestick |-> candlestickSeries, volume |-> volumeSeries,
              forecast |-> forecastSeries, confidence |-> confidenceSeries,
              error |-> errorSeries, portfolio |-> portfolioValueSeries,
              effect |-> effect]

Idle == [price |-> "idle", forecast |-> "idle", error |-> "idle",
         portfolio |-> "idle"]

\* useEffect(..., [chartReady, priceData, timeRange])
PriceEffect(c, P) ==
    IF ~c.chartReady \/ Len(P.priceData) = 0
    THEN [c EXCEPT !.effect.price = "skipped"]
    ELSE LET u == uniqueData(P.priceData, P.timeRange)
         IN  [c EXCEPT !.candlestick = candlestickData(u),
                       !.volume = volumeData(u),
                       !.effect.price = "set"]

\* useEffect(..., [chartReady, forecasts, priceData, timeRange])
ForecastEffect(c, P) ==
    IF ~c.chartReady \/ P.forecasts = <<>> \/ Len(P.priceData) = 0
    THEN [c EXCEPT !.effect.forecast = "skipped"]
    ELSE LET u == uniqueData(P.priceData, P.timeRange)
         IN  [c EXCEPT !.forecast = forecastData(P.forecasts[1], lastTime(u)),
                       !.confidence = confidenceData(P.forecasts[1], lastTime(u)),
                       !.effect.forecast = "set"]

\* useEffect(..., [chartReady, predictionErrors, priceData, timeRange, forecasts])
ErrorEffect(c, P) ==
    IF ~c.chartReady \/ Len(P.predictionErrors) = 0
    THEN IF c.chart # "none"
         THEN [c EXCEPT !.error = <<>>, !.effect.error = "cleared"]
         ELSE [c EXCEPT !.effect.error = "skipped"]
    ELSE IF P.forecasts = <<>> \/ Len(P.priceData) = 0
    THEN [c EXCEPT !.effect.error = "skipped"]
    ELSE LET u == uniqueData(P.priceData, P.timeRange)
         IN  [c EXCEPT !.error = errorData(P.predictionErrors, lastTime(u)),
                       !.effect.error = "set"]

\* useEffect(..., [chartReady, portfolioValueHistory, priceData, timeRange,
\*                 initialCapital])
PortfolioEffect(c, P) ==
    IF ~c.chartReady \/ Len(P.portfolioValueHistory) = 0
    THEN IF c.chart # "none"
         THEN [c EXCEPT !.portfolio = <<>>, !.effect.portfolio = "cleared"]
         ELSE [c EXCEPT !.effect.portfolio = "skipped"]
    ELSE IF Len(P.priceData) = 0
    THEN [c EXCEPT !.effect.portfolio = "skipped"]
    ELSE LET u == uniqueData(P.priceData, P.timeRange)
             d == uniquePortfolioData(P.portfolioValueHistory, u,
                                      P.initialCapital)
         IN  IF c.chart # "none" /\ Len(d) > 0
             THEN [c EXCEPT !.portfolio = d, !.effect.portfolio = "set"]
             ELSE [c EXCEPT !.effect.portfolio = "skipped"]

\* The effects of one commit, in declaration order; `which` names the data
\* effects with a changed dependency.
RunEffects(c, P, which) ==
    LET c0 == [c EXCEPT !.effect = Idle]
        c1 == IF "price" \in which THEN PriceEffect(c0, P) ELSE c0
        c2 == IF "forecast" \in which THEN ForecastEffect(c1, P) ELSE c1
        c3 == IF "error" \in which THEN ErrorEffect(c2, P) ELSE c2
    IN  IF "portfolio" \in which THEN PortfolioEffect(c3, P) ELSE c3

AllEffects == {"price", "forecast", "error", "portfolio"}

\* useEffect(..., [isFullscreen]): the cleanup of the previous run removes
\* the chart it created; the new run returns at once when the container
\* div carries no ref (priceData empty), otherwise it creates a chart with
\* six empty series, stores them in the refs and calls setChartReady(true).
\* When that changes chartReady the component renders again and every data
\* effect runs; when chartReady was already true nothing else runs.
InitEffect(c, P) ==
    LET cleaned == IF c.chart = "live" THEN [c EXCEPT !.chart = "removed"]
                   ELSE c
    IN  IF Len(P.priceData) = 0
        THEN [cleaned EXCEPT !.effect = Idle]
        ELSE LET created == [cleaned EXCEPT !.chart = "live",
                                 !.candlestick = <<>>, !.volume = <<>>,
                                 !.forecast = <<>>, !.confidence = <<>>,
                                 !.error = <<>>, !.portfolio = <<>>,
                                 !.effect = Idle]
             IN  IF created.chartReady THEN created
                 ELSE RunEffects([created EXCEPT !.chartReady = TRUE], P,
                                 AllEffects)

\* A freshly constructed component: useState(false) twice, refs undefined.
Fresh == [chartReady |-> FALSE, chart |-> "none",
          candlestick |-> <<>>, volume |-> <<>>, forecast |-> <<>>,
          confidence |-> <<>>, error |-> <<>>, portfolio |-> <<>>,
          effect |-> Idle]

\* First commit of a mounted component: the init effect, then the data
\* effects (all of which see chartReady = false in this render).
MountEffects(P) ==
    LET first == RunEffects(Fresh, P, AllEffects)
    IN  InitEffect([first EXCEPT !.chart = "none"], P)

Commit(c) ==
    /\ chartReady' = c.chartReady
    /\ chart' = c.chart
    /\ candlestickSeries' = c.candlestick
    /\ volumeSeries' = c.volume
    /\ forecastSeries' = c.forecast
    /\ confidenceSeries' = c.confidence
    /\ errorSeries' = c.error
    /\ portfolioValueSeries' = c.portfolio
    /\ effect' = c.effect
    /\ UNCHANGED <<scoreVars, fnVars, tiVars, fcVars, appVars>>

(***************************************************************************)
(* CandlestickChart: state machine                                         *)
(***************************************************************************)
\* App's initial state: priceData [], forecasts null, the overlay props
\* not passed.
ChartInit ==
    /\ priceData = <<>>
    /\ forecasts = <<>>
    /\ timeRange = "1w"
    /\ predictionErrors = <<>>
    /\ portfolioValueHistory = <<>>
    /\ initialCapital = 0
    /\ isFullscreen = FALSE
    /\ LET c == MountEffects([priceData |-> <<>>, forecasts |-> <<>>,
                               timeRange |-> "1w", predictionErrors |-> <<>>,
                               portfolioValueHistory |-> <<>>,
                               initialCapital |-> 0])
       IN  /\ chartReady = c.chartReady
           /\ chart = c.chart
           /\ candlestickSeries = c.candlestick
           /\ volumeSeries = c.volume
           /\ forecastSeries = c.forecast
           /\ confidenceSeries = c.confidence
           /\ errorSeries = c.error
           /\ portfolioValueSeries = c.portfolio
           /\ effect = c.effect

\* App's initial state: performanceMetrics null
ScoreInit ==
    /\ metrics = <<>>
    /\ overallScore = Undefined
    /\ scoreLabel = "none"

FnInit ==
    /\ fnCall = [fn |-> "none", prices |-> <<>>, period |-> 0, fast |-> 0,
                 signal |-> 0, spread |-> 0]
    /\ fnResult = [threw |-> FALSE, out |-> <<>>]

\* TechnicalIndicators: useState(null), priceData []
TIInit ==
    /\ tiPriceData = <<>>
    /\ indicators = <<>>

\* App: the useState initial values (App.js 15-28); no call has been made
AppInit ==
    /\ app = [selectedInstrument |-> <<>>, priceData |-> <<>>,
              selectedModel |-> "", trainedModelId |-> <<>>,
              forecasts |-> <<>>, performanceMetrics |-> <<>>,
              loading |-> FALSE, error |-> <<>>, success |-> <<>>,
              isTraining |-> FALSE, isGenerating |-> FALSE]
    /\ tasks = {}
    /\ started = 0

\* ForecastControls: useState(24), useState(0.95); App's initial props
FCInit ==
    /\ trainedModelId = <<>>
    /\ isGenerating = FALSE
    /\ horizon = 24
    /\ confidenceLevel = N(950)
    /\ onGenerateForecast = [calls |-> 0, last |-> <<>>]

Init == ChartInit /\ ScoreInit /\ FnInit /\ TIInit /\ FCInit /\ AppInit

SetPriceData(d) ==
    /\ priceData' = d
    /\ Commit(RunEffects(ChartSide, [Props EXCEPT !.priceData = d], AllEffects))
    /\ UNCHANGED <<forecasts, timeRange, predictionErrors,
                   portfolioValueHistory, initialCapital, isFullscreen>>

SetForecasts(f) ==
    /\ forecasts' = f
    /\ Commit(RunEffects(ChartSide, [Props EXCEPT !.forecasts = f],
                         {"forecast", "error"}))
    /\ UNCHANGED <<priceData, timeRange, predictionErrors,
                   portfolioValueHistory, initialCapital, isFullscreen>>

SetPredictionErrors(e) ==
    /\ predictionErrors' = e
    /\ Commit(RunEffects(ChartSide, [Props EXCEPT !.predictionErrors = e],
                         {"error"}))
    /\ UNCHANGED <<priceData, forecasts, timeRange, portfolioValueHistory,
                   initialCapital, isFullscreen>>

SetPortfolioValueHistory(h) ==
    /\ portfolioValueHistory' = h
    /\ Commit(RunEffects(ChartSide,
                         [Props EXCEPT !.portfolioValueHistory = h],
                         {"portfolio"}))
    /\ UNCHANGED <<priceData, forecasts, timeRange, predictionErrors,
                   initialCapital, isFullscreen>>

SetTimeRange(r) ==
    /\ r # timeRange
    /\ timeRange' = r
    /\ Commit(RunEffects(ChartSide, [Props EXCEPT !.timeRange = r], AllEffects))
    /\ UNCHANGED <<priceData, forecasts, predictionErrors,
                   portfolioValueHistory, initialCapital, isFullscreen>>

\* toggleFullscreen: setIsFullscreen(!isFullscreen) re-runs the init effect.
ToggleFullscreen ==
    /\ isFullscreen' = ~isFullscreen
    /\ Commit(InitEffect(ChartSide, Props))
    /\ UNCHANGED <<priceData, forecasts, timeRange, predictionErrors,
                   portfolioValueHistory, initialCapital>>

\* App swaps the chart for the LoadingSpinner while `loading` is true and
\* mounts a new CandlestickChart afterwards with its current props.
Remount ==
    /\ isFullscreen' = FALSE
    /\ Commit(MountEffects(Props))
    /\ UNCHANGED <<priceData, forecasts, timeRange, predictionErrors,
                   portfolioValueHistory, initialCapital>>

\* the whole component
Next ==
    \/ \E d \in SmallPriceInputs : SetPriceData(d)
    \/ \E f \in SmallForecastInputs : SetForecasts(f)
    \/ \E e \in SmallErrorInputs : SetPredictionErrors(e)
    \/ \E h \in SmallPortfolioInputs : SetPortfolioValueHistory(h)
    \/ \E r \in TimeRanges : SetTimeRange(r)
    \/ ToggleFullscreen
    \/ Remount

Spec == Init /\ [][Next]_vars

\* the component as App uses it for the price series: no overlay props
NextPrice ==
    \/ \E d \in PriceInputs : SetPriceData(d)
    \/ \E r \in TimeRanges : SetTimeRange(r)
    \/ ToggleFullscreen
    \/ Remount

SpecPrice == Init /\ [][NextPrice]_vars

(***************************************************************************)
(* PerformanceMetrics: overall performance scorer                          *)
(***************************************************************************)
\* A scorer that skips a missing metric instead of giving up.
calculateOverallScoreMutPartial(m) ==
    LET rmse == IF ~Truthy(m.rmse) THEN 0
                ELSE IF Lt(m.rmse, Whole(2)) THEN 25
                ELSE IF Lt(m.rmse, Whole(5)) THEN 15 ELSE 5
        mae == IF ~Truthy(m.mae) THEN 0
               ELSE IF Lt(m.mae, N(1500)) THEN 25
               ELSE IF Lt(m.mae, Whole(3)) THEN 15 ELSE 5
        mape == IF ~Truthy(m.mape) THEN 0
                ELSE IF Lt(m.mape, Whole(2)) THEN 25
                ELSE IF Lt(m.mape, Whole(5)) THEN 15 ELSE 5
        da == IF ~Truthy(m.directional_accuracy) THEN 0
              ELSE IF Gt(m.directional_accuracy, Whole(65)) THEN 25
              ELSE IF Gt(m.directional_accuracy, Whole(55)) THEN 15 ELSE 5
    IN  Whole(rmse + mae + mape + da)

\* `score` is a sum of integers, so Math.round(score) = score
calculateOverallScore(m) ==
    IF ~Truthy(m.rmse) \/ ~Truthy(m.mae) \/ ~Truthy(m.mape)
           \/ ~Truthy(m.directional_accuracy)
    THEN Null
    ELSE LET rmse == IF Lt(m.rmse, Whole(2)) THEN 25
                     ELSE IF Lt(m.rmse, Whole(5)) THEN 15 ELSE 5
             mae == IF Lt(m.mae, N(1500)) THEN 25
                    ELSE IF Lt(m.mae, Whole(3)) THEN 15 ELSE 5
             mape == IF Lt(m.mape, Whole(2)) THEN 25
                     ELSE IF Lt(m.mape, Whole(5)) THEN 15 ELSE 5
             da == IF Gt(m.directional_accuracy, Whole(65)) THEN 25
                   ELSE IF Gt(m.directional_accuracy, Whole(55)) THEN 15 ELSE 5
         IN  Whole(rmse + mae + mape + da)

\* A label whose thresholds are exclusive.
overallLabelMutExclusive(score) ==
    IF Gt(score, Whole(80)) THEN "Excellent"
    ELSE IF Gt(score, Whole(60)) THEN "Good" ELSE "Needs Improvement"

\* overallScore >= 80 ? 'Excellent' : overallScore >= 60 ? 'Good' : ...
overallLabel(score) ==
    IF Ge(score, Whole(80)) THEN "Excellent"
    ELSE IF Ge(score, Whole(60)) THEN "Good" ELSE "Needs Improvement"

\* Object.keys(metrics).length === 0: a key that is absent reads undefined
IsEmptyObject(m) ==
    /\ m.rmse = Undefined
    /\ m.mae = Undefined
    /\ m.mape = Undefined
    /\ m.directional_accuracy = Undefined

MetricObjects ==
    [rmse : {Undefined, Null, Whole(0), N(-1000), N(1500), Whole(2), Whole(5)},
     mae : {Undefined, Whole(0), N(1500), Whole(3)},
     mape : {Null, Whole(0), N(1999), Whole(2), Whole(5)},
     directional_accuracy : {Undefined, Whole(0), Whole(55), Whole(56), Whole(65),
                             Whole(70)}]

\* Two metric objects with every bucket at its best and at its worst.
ExcellentMetrics ==
    [rmse |-> N(1500), mae |-> Whole(1), mape |-> N(1500),
     directional_accuracy |-> Whole(70)]

PoorMetrics ==
    [rmse |-> Whole(6), mae |-> Whole(4), mape |-> Whole(6),
     directional_accuracy |-> Whole(50)]

MetricInputs ==
    {<<>>} \cup {<<m>> : m \in MetricObjects}
        \cup {<<ExcellentMetrics>>, <<PoorMetrics>>}
        \cup {<<[rmse |-> Undefined, mae |-> Undefined, mape |-> Undefined,
                 directional_accuracy |-> Undefined]>>}

\* A render of PerformanceMetrics with the prop `metrics`.
SetMetrics(m) ==
    /\ metrics' = m
    /\ IF m = <<>> \/ IsEmptyObject(m[1])
       THEN /\ overallScore' = Undefined
            /\ scoreLabel' = "none"
       ELSE LET score == calculateOverallScore(m[1])
            IN  /\ overallScore' = score
                /\ scoreLabel' = IF score # Null THEN overallLabel(score)
                                 ELSE "none"
    /\ UNCHANGED <<chartVars, fnVars, tiVars, fcVars, appVars>>

NextScore == \E m \in MetricInputs : SetMetrics(m)

SpecScore == Init /\ [][NextScore]_vars

(***************************************************************************)
(* TechnicalIndicators: indicator engine.  The functions take and return   *)
(* sequences of JavaScript numbers; `period` is a positive integer.        *)
(***************************************************************************)
MaxLen == 4          \* longest input of an indicator function called alone
MaxPeriod == 3       \* largest lookback period of such a call
TIMaxPoints == 21    \* longest priceData of TechnicalIndicators

TypeError == <<"TypeError", 0>>

\* An array literal or the result of map(): the elements' values.
Array(f) == SubSeq(f, 1, Len(f))

\* arr.reduce((a, b) => a + b): throws a TypeError on an empty array;
\* reduceAdd is the fold from the 1-based position i on.
RECURSIVE reduceAdd(_, _, _)
reduceAdd(acc, arr, i) ==
    IF i > Len(arr) THEN acc
    ELSE Once(Add(acc, arr[i]), LAMBDA sum : reduceAdd(sum, arr, i + 1))

reduceSum(arr) ==
    Once(arr, LAMBDA a : IF Len(a) = 0 THEN TypeError
                         ELSE reduceAdd(a[1], a, 2))

\* arr.slice(from, to) for 0 <= from <= to (0-based, `to` excluded)
slice(arr, from, to) ==
    LET hi == IF to > Len(arr) THEN Len(arr) ELSE to
    IN  IF hi > from THEN SubSeq(arr, from + 1, hi) ELSE <<>>

\* A sample equal to TypeError marks a call that threw while computing it.
Threw(samples) == \E i \in 1..Len(samples) : samples[i] = TypeError

\* largest r with r * r <= x
RECURSIVE ISqrtIn(_, _, _)
ISqrtIn(x, lo, hi) ==
    IF lo >= hi THEN lo
    ELSE LET mid == (lo + hi + 1) \div 2
         IN  IF mid * mid <= x THEN ISqrtIn(x, mid, hi)
             ELSE ISqrtIn(x, lo, mid - 1)

\* Math.sqrt
Sqrt(a) ==
    Once(ToNumber(a), LAMBDA x :
        IF x[1] = "nan" THEN NaN
        ELSE IF IsInf(x) THEN (IF x[2] > 0 THEN PosInf ELSE NaN)
        ELSE IF x[2] < 0 THEN NaN
        ELSE N(ISqrtIn(x[2] * Scale, 0, 40000)))

\* Math.max(...arr), Math.min(...arr): NaN when an argument is NaN;
\* maxFrom and minFrom run over the arguments from the 1-based position i.
RECURSIVE maxFrom(_, _, _)
maxFrom(acc, arr, i) ==
    IF i > Len(arr) THEN acc
    ELSE Once(Operands(acc, arr[i], LAMBDA x, y :
                  IF x[1] = "nan" \/ y[1] = "nan" THEN NaN
                  ELSE IF Lt(x, y) THEN y ELSE x),
              LAMBDA m : maxFrom(m, arr, i + 1))

MathMax(arr) == Once(arr, LAMBDA a : maxFrom(NegInf, a, 1))

RECURSIVE minFrom(_, _, _)
minFrom(acc, arr, i) ==
    IF i > Len(arr) THEN acc
    ELSE Once(Operands(acc, arr[i], LAMBDA x, y :
                  IF x[1] = "nan" \/ y[1] = "nan" THEN NaN
                  ELSE IF Lt(y, x) THEN y ELSE x),
              LAMBDA m : minFrom(m, arr, i + 1))

MathMin(arr) == Once(arr, LAMBDA a : minFrom(PosInf, a, 1))

\* arr[i] for a 0-based index: undefined outside the array
At(arr, i) == IF i >= 0 /\ i < Len(arr) THEN arr[i + 1] ELSE Undefined

\* variant of calculateRSI: one neutral sample per input price
calculateRSIMutPadded(prices, period) ==
    [i \in 1..Len(prices) |-> Whole(50)]

\* variant of calculateRSI: no special case for a window without losses
calculateRSIMutNoZeroCase(prices, period) ==
    LET change(i) == Sub(prices[i + 1], prices[i])
        gains == Array([i \in 1..(Len(prices) - 1) |->
                     IF Gt(change(i), N(0)) THEN change(i) ELSE N(0)])
        losses == Array([i \in 1..(Len(prices) - 1) |->
                      IF Lt(change(i), N(0)) THEN Neg(change(i)) ELSE N(0)])
        rsiAt(g, l, i) ==
            LET sumGain == reduceSum(slice(g, i - period + 1, i + 1))
                sumLoss == reduceSum(slice(l, i - period + 1, i + 1))
            IN  IF sumGain = TypeError \/ sumLoss = TypeError THEN TypeError
                ELSE LET avgGain == Div(sumGain, Whole(period))
                         avgLoss == Div(sumLoss, Whole(period))
                         rs == Div(avgGain, avgLoss)
                     IN  Sub(Whole(100), Div(Whole(100), Add(Whole(1), rs)))
        count == IF Len(prices) - 1 >= period THEN Len(prices) - period ELSE 0
    IN  Once(gains, LAMBDA g : Once(losses, LAMBDA l :
            Array([k \in 1..count |-> rsiAt(g, l, period - 1 + k - 1)])))

calculateRSI(prices, period) ==
    LET change(i) == Sub(prices[i + 1], prices[i])
        gains == Array([i \in 1..(Len(prices) - 1) |->
                     IF Gt(change(i), N(0)) THEN change(i) ELSE N(0)])
        losses == Array([i \in 1..(Len(prices) - 1) |->
                      IF Lt(change(i), N(0)) THEN Neg(change(i)) ELSE N(0)])
        \* 0-based i runs from period - 1 to gains.length - 1
        rsiAt(g, l, i) ==
            LET sumGain == reduceSum(slice(g, i - period + 1, i + 1))
                sumLoss == reduceSum(slice(l, i - period + 1, i + 1))
            IN  IF sumGain = TypeError \/ sumLoss = TypeError THEN TypeError
                ELSE LET avgGain == Div(sumGain, Whole(period))
                         avgLoss == Div(sumLoss, Whole(period))
                     IN  IF StrictEq(avgLoss, N(0)) THEN Whole(100)
                         ELSE LET rs == Div(avgGain, avgLoss)
                              IN  Sub(Whole(100),
                                      Div(Whole(100), Add(Whole(1), rs)))
        count == IF Len(prices) - 1 >= period THEN Len(prices) - period ELSE 0
    IN  Once(gains, LAMBDA g : Once(losses, LAMBDA l :
            Array([k \in 1..count |-> rsiAt(g, l, period - 1 + k - 1)])))

\* for (i = 1; i < prices.length; i++) ema.push(...)
RECURSIVE emaLoop(_, _, _, _)
emaLoop(prices, multiplier, i, ema) ==
    IF i >= Len(prices) THEN ema
    ELSE Once(Append(ema, Add(Mul(At(prices, i), multiplier),
                              Mul(At(ema, i - 1),
                                  Sub(Whole(1), multiplier)))),
              LAMBDA next : emaLoop(prices, multiplier, i + 1, next))

\* variant of calculateEMA: multiplier 2 / period
calculateEMAMutMultiplier(prices, period) ==
    Once(prices, LAMBDA p : Once(Div(Whole(2), Whole(period)),
        LAMBDA multiplier : emaLoop(p, multiplier, 1, <<At(p, 0)>>)))

calculateEMA(prices, period) ==
    Once(prices, LAMBDA p : Once(Div(Whole(2), Whole(period + 1)),
        LAMBDA multiplier : emaLoop(p, multiplier, 1, <<At(p, 0)>>)))

calculateMACD(prices, fastPeriod, slowPeriod, signalPeriod) ==
    Once(calculateEMA(prices, fastPeriod), LAMBDA emaFast :
    Once(calculateEMA(prices, slowPeriod), LAMBDA emaSlow :
    Once(Array([i \in 1..Len(emaFast) |->
                   Sub(emaFast[i], At(emaSlow, i - 1))]), LAMBDA macdLine :
    Once(calculateEMA(macdLine, signalPeriod), LAMBDA signalLine :
        [macdLine |-> macdLine, signalLine |-> signalLine,
         histogram |-> Array([i \in 1..Len(macdLine) |->
                          Sub(macdLine[i], At(signalLine, i - 1))])]))))

\* arr.reduce((sum, price) => sum + Math.pow(price - mean, 2), acc) from
\* the 1-based position i on
RECURSIVE reduceSquares(_, _, _, _)
reduceSquares(acc, arr, mean, i) ==
    IF i > Len(arr) THEN acc
    ELSE Once(Add(acc, Mul(Sub(arr[i], mean), Sub(arr[i], mean))),
              LAMBDA sum : reduceSquares(sum, arr, mean, i + 1))

\* variant of calculateBollingerBands: sample standard deviation
\* (divisor period - 1)
calculateBollingerBandsMutSample(prices, period, stdDev) ==
    LET count == IF Len(prices) >= period THEN Len(prices) - period + 1 ELSE 0
        band(k) ==
            Once(slice(prices, k - 1, k - 1 + period), LAMBDA window :
            Once(reduceSum(window), LAMBDA sum :
                IF sum = TypeError
                THEN [sma |-> TypeError, upper |-> TypeError,
                      lower |-> TypeError]
                ELSE Once(Div(sum, Whole(period)), LAMBDA mean :
                     Once(Sqrt(Div(reduceSquares(N(0), window, mean, 1),
                                   Whole(period - 1))),
                          LAMBDA standardDeviation :
                         [sma |-> mean,
                          upper |-> Add(mean, Mul(standardDeviation,
                                                  Whole(stdDev))),
                          lower |-> Sub(mean, Mul(standardDeviation,
                                                  Whole(stdDev)))]))))
    IN  Once(Array([k \in 1..count |-> band(k)]), LAMBDA bands :
            [sma |-> [k \in 1..count |-> bands[k].sma],
             upperBand |-> [k \in 1..count |-> bands[k].upper],
             lowerBand |-> [k \in 1..count |-> bands[k].lower]])

calculateBollingerBands(prices, period, stdDev) ==
    LET count == IF Len(prices) >= period THEN Len(prices) - period + 1 ELSE 0
        band(k) ==
            Once(slice(prices, k - 1, k - 1 + period), LAMBDA window :
            Once(reduceSum(window), LAMBDA sum :
                IF sum = TypeError
                THEN [sma |-> TypeError, upper |-> TypeError,
                      lower |-> TypeError]
                ELSE Once(Div(sum, Whole(period)), LAMBDA mean :
                     Once(Sqrt(Div(reduceSquares(N(0), window, mean, 1),
                                   Whole(period))),
                          LAMBDA standardDeviation :
                         [sma |-> mean,
                          upper |-> Add(mean, Mul(standardDeviation,
                                                  Whole(stdDev))),
                          lower |-> Sub(mean, Mul(standardDeviation,
                                                  Whole(stdDev)))]))))
    IN  Once(Array([k \in 1..count |-> band(k)]), LAMBDA bands :
            [sma |-> [k \in 1..count |-> bands[k].sma],
             upperBand |-> [k \in 1..count |-> bands[k].upper],
             lowerBand |-> [k \in 1..count |-> bands[k].lower]])

\* variant of calculateStochastic: a flat window yields the neutral 50
calculateStochasticMutFlatGuard(highs, lows, closes, period) ==
    LET count == IF Len(closes) >= period THEN Len(closes) - period + 1 ELSE 0
        kAt(i) ==
            Once(MathMax(slice(highs, i - period + 1, i + 1)),
                 LAMBDA highestHigh :
            Once(MathMin(slice(lows, i - period + 1, i + 1)),
                 LAMBDA lowestLow :
                IF StrictEq(highestHigh, lowestLow) THEN Whole(50)
                ELSE Mul(Div(Sub(At(closes, i), lowestLow),
                             Sub(highestHigh, lowestLow)), Whole(100))))
    IN  Array([k \in 1..count |-> kAt(period - 1 + k - 1)])

\* variant of calculateStochastic: the loop starts at i = period
calculateStochasticMutFromPeriod(highs, lows, closes, period) ==
    LET count == IF Len(closes) > period THEN Len(closes) - period ELSE 0
        kAt(i) ==
            Once(MathMax(slice(highs, i - period + 1, i + 1)),
                 LAMBDA highestHigh :
            Once(MathMin(slice(lows, i - period + 1, i + 1)),
                 LAMBDA lowestLow :
                Mul(Div(Sub(At(closes, i), lowestLow),
                        Sub(highestHigh, lowestLow)), Whole(100))))
    IN  Array([k \in 1..count |-> kAt(period + k - 1)])

calculateStochastic(highs, lows, closes, period) ==
    LET count == IF Len(closes) >= period THEN Len(closes) - period + 1 ELSE 0
        kAt(i) ==
            Once(MathMax(slice(highs, i - period + 1, i + 1)),
                 LAMBDA highestHigh :
            Once(MathMin(slice(lows, i - period + 1, i + 1)),
                 LAMBDA lowestLow :
                Mul(Div(Sub(At(closes, i), lowestLow),
                        Sub(highestHigh, lowestLow)), Whole(100))))
    IN  Array([k \in 1..count |-> kAt(period - 1 + k - 1)])

(***************************************************************************)
(* The indicator functions called on their own                             *)
(***************************************************************************)
CloseValues == {Whole(1), Whole(2), Whole(4)}

FnInputs == SeqsUpTo(CloseValues, MaxLen)

Periods == 1..MaxPeriod

\* highs and lows around the closes; spread 0 gives flat windows
Shifted(closes, by) == [i \in 1..Len(closes) |-> Add(closes[i], Whole(by))]

NoCall == [fn |-> "none", prices |-> <<>>, period |-> 0, fast |-> 0,
           signal |-> 0, spread |-> 0]

\* calculateRSI(prices, period = 14) on one more close than its period
DefaultRSICall == <<[i \in 1..15 |-> Whole(1 + ((i * i) % 3))], 14>>

RSICalls == (FnInputs \X Periods) \cup {DefaultRSICall}

\* Each behaviour makes one call: the functions keep no state.
CallRSI ==
    /\ fnCall = NoCall
    /\ \E call \in RSICalls :
        /\ fnCall' = [NoCall EXCEPT !.fn = "calculateRSI", !.prices = call[1],
                                    !.period = call[2]]
        /\ LET out == calculateRSI(call[1], call[2])
           IN  fnResult' = [threw |-> Threw(out), out |-> out]
    /\ UNCHANGED <<chartVars, scoreVars, tiVars, fcVars, appVars>>

CallEMA ==
    /\ fnCall = NoCall
    /\ \E prices \in FnInputs, period \in Periods :
        /\ fnCall' = [NoCall EXCEPT !.fn = "calculateEMA", !.prices = prices,
                                    !.period = period]
        /\ fnResult' = [threw |-> FALSE, out |-> calculateEMA(prices, period)]
    /\ UNCHANGED <<chartVars, scoreVars, tiVars, fcVars, appVars>>

\* the lookback of MACD is its longest period, slowPeriod
CallMACD ==
    /\ fnCall = NoCall
    /\ \E prices \in FnInputs, fast \in Periods, slow \in Periods,
          signal \in Periods :
        /\ fast < slow
        /\ fnCall' = [NoCall EXCEPT !.fn = "calculateMACD",
                                    !.prices = prices, !.period = slow,
                                    !.fast = fast, !.signal = signal]
        /\ fnResult' = [threw |-> FALSE,
                        out |-> calculateMACD(prices, fast, slow, signal)]
    /\ UNCHANGED <<chartVars, scoreVars, tiVars, fcVars, appVars>>

CallBollinger ==
    /\ fnCall = NoCall
    /\ \E prices \in FnInputs, period \in Periods :
        /\ fnCall' = [NoCall EXCEPT !.fn = "calculateBollingerBands",
                                    !.prices = prices, !.period = period]
        /\ LET out == calculateBollingerBands(prices, period, 2)
           IN  fnResult' = [threw |-> Threw(out.sma), out |-> out]
    /\ UNCHANGED <<chartVars, scoreVars, tiVars, fcVars, appVars>>

CallStochastic ==
    /\ fnCall = NoCall
    /\ \E closes \in FnInputs, spread \in {0, 1}, period \in Periods :
        /\ fnCall' = [NoCall EXCEPT !.fn = "calculateStochastic",
                                    !.prices = closes, !.period = period,
                                    !.spread = spread]
        /\ fnResult' = [threw |-> FALSE,
                        out |-> calculateStochastic(
                                    Shifted(closes, spread),
                                    Shifted(closes, 0 - spread),
                                    closes, period)]
    /\ UNCHANGED <<chartVars, scoreVars, tiVars, fcVars, appVars>>

NextFn ==
    \/ CallRSI
    \/ CallEMA
    \/ CallMACD
    \/ CallBollinger
    \/ CallStochastic

SpecFn == Init /\ [][NextFn]_vars

(***************************************************************************)
(* TechnicalIndicators: the effect on [priceData]                          *)
(***************************************************************************)
\* x || null
OrNull(x) == IF Truthy(x) THEN x ELSE Null

\* new Date(d.date).toLocaleDateString(): the calendar day of the instant
LocaleDate(d) == d.date \div 86400000

\* priceData.slice(19).map((d, i) => ({...}))
chartRows(data, rsi, macd, bollinger, stochastic) ==
    LET rest == slice(data, 19, Len(data))
    IN  [r \in 1..Len(rest) |->
            [date |-> LocaleDate(rest[r]),
             timestamp |-> rest[r].date,
             price |-> Whole(rest[r].close_price),
             volume |-> IF rest[r].volume # 0 THEN rest[r].volume ELSE 0,
             rsi |-> OrNull(At(rsi, r - 1)),
             macd |-> OrNull(At(macd.macdLine, r - 1)),
             signal |-> OrNull(At(macd.signalLine, r - 1)),
             histogram |-> OrNull(At(macd.histogram, r - 1)),
             bbUpper |-> OrNull(At(bollinger.upperBand, r - 1)),
             bbMiddle |-> OrNull(At(bollinger.sma, r - 1)),
             bbLower |-> OrNull(At(bollinger.lowerBand, r - 1)),
             stochastic |-> OrNull(At(stochastic, r - 1))]]

computeIndicators(data) ==
    LET closes == Array([i \in 1..Len(data) |-> Whole(data[i].close_price)])
        highs == Array([i \in 1..Len(data) |-> Whole(data[i].high_price)])
        lows == Array([i \in 1..Len(data) |-> Whole(data[i].low_price)])
    IN  Once(calculateRSI(closes, 14), LAMBDA rsi :
        Once(calculateMACD(closes, 12, 26, 9), LAMBDA macd :
        Once(calculateBollingerBands(closes, 20, 2), LAMBDA bollinger :
        Once(calculateStochastic(highs, lows, closes, 14),
             LAMBDA stochastic :
            [rsi |-> rsi, macd |-> macd, bollinger |-> bollinger,
             stochastic |-> stochastic,
             chartData |-> chartRows(data, rsi, macd, bollinger,
                                     stochastic)]))))

\* variant of the indicator effect: the guard lets 19 points through
IndicatorEffectMutNineteen(data, previous) ==
    IF Len(data) < 19 THEN previous
    ELSE Once(computeIndicators(data), LAMBDA computed :
             IF Threw(computed.rsi) \/ Threw(computed.bollinger.sma)
             THEN previous ELSE <<computed>>)

\* useEffect(..., [priceData]): returns before the functions are defined
\* when there are fewer than 20 points; an exception leaves the effect
\* before setIndicators.
IndicatorEffect(data, previous) ==
    IF Len(data) < 20 THEN previous
    ELSE Once(computeIndicators(data), LAMBDA computed :
             IF Threw(computed.rsi) \/ Threw(computed.bollinger.sma)
             THEN previous ELSE <<computed>>)

\* What TechnicalIndicators returns: the insufficient-data card when
\* priceData is missing or shorter than 20 points, otherwise the indicator
\* selector and chart, with the current values once `indicators` is set.
renderTechnicalIndicators(data, ind) ==
    IF Len(data) < 20 THEN "insufficient-data"
    ELSE IF ind = <<>> THEN "chart-without-values"
    ELSE "chart-with-values"

TIPoint(i, k) ==
    [date |-> i * 3600000, open_price |-> 2 + ((i * k) % 4),
     high_price |-> 3 + ((i * k) % 4) + (i % 2), low_price |-> 1 + ((i * k) % 4),
     close_price |-> 2 + ((i * k) % 4), volume |-> 5]

TISeries(n, k) == [i \in 1..n |-> TIPoint(i, k)]

\* records a and a + 1 exchanged (a = 0: the series as it is)
SwapAt(s, a) ==
    [i \in 1..Len(s) |-> IF a = 0 THEN s[i]
                         ELSE IF i = a THEN s[a + 1]
                         ELSE IF i = a + 1 THEN s[a] ELSE s[i]]

\* record a + 1 replaced by a second record at the instant of record a
RepeatAt(s, a) ==
    [i \in 1..Len(s) |-> IF a # 0 /\ i = a + 1
                         THEN [s[a] EXCEPT !.close_price = @ + 1,
                                           !.high_price = @ + 1]
                         ELSE s[i]]

TIInputs ==
    {<<>>} \cup
    {SwapAt(TISeries(n, k), a) : n \in 19..TIMaxPoints, k \in {1, 3},
                                 a \in {0, 1, 18}} \cup
    {RepeatAt(TISeries(n, k), a) : n \in 19..TIMaxPoints, k \in {1, 3},
                                   a \in {1}}

\* A render of TechnicalIndicators with a new priceData.
TISetPriceData(d) ==
    /\ tiPriceData' = d
    /\ indicators' = IndicatorEffect(d, indicators)
    /\ UNCHANGED <<chartVars, scoreVars, fnVars, fcVars, appVars>>

NextTI == \E d \in TIInputs : TISetPriceData(d)

SpecTI == Init /\ [][NextTI]_vars

(***************************************************************************)
(* ForecastControls.  The value of an <option> is the text of its number;  *)
(* a text is modelled by its decimal digits, [whole, frac].                *)
(***************************************************************************)
MaxClicks == 2       \* clicks on Generate Forecast in one behaviour

RECURSIVE Digits(_)
Digits(n) == IF n < 10 THEN <<n>> ELSE Append(Digits(n \div 10), n % 10)

RECURSIVE DropTrailingZeros(_)
DropTrailingZeros(d) ==
    IF Len(d) > 0 /\ d[Len(d)] = 0 THEN DropTrailingZeros(SubSeq(d, 1, Len(d) - 1))
    ELSE d

\* String(x) of a non-negative number: "24", "0.9", "0.95"
valueString(x) ==
    LET f == x[2] % Scale
    IN  [whole |-> Digits(x[2] \div Scale),
         frac |-> DropTrailingZeros(<<f \div 100, (f \div 10) % 10, f % 10>>)]

RECURSIVE DigitsValue(_, _, _)
DigitsValue(d, i, acc) ==
    IF i > Len(d) THEN acc ELSE DigitsValue(d, i + 1, 10 * acc + d[i])

\* parseInt(text): the digits before the point
parseInt(text) == DigitsValue(text.whole, 1, 0)

\* parseFloat(text)
parseFloat(text) ==
    LET d == text.frac
        digit(i) == IF i <= Len(d) THEN d[i] ELSE 0
    IN  N(DigitsValue(text.whole, 1, 0) * Scale
              + 100 * digit(1) + 10 * digit(2) + digit(3))

horizonOptions == {Whole(1), Whole(3), Whole(24), Whole(72), Whole(168)}

confidenceOptions == {N(900), N(950), N(990)}

\* model ids are the non-empty strings createModel returns
ModelIds == {<<"model123">>}

\* A button that is rendered as disabled and one that is not.
buttonDisabledMutGeneratingOnly(generating, modelId) == generating

\* disabled={isGenerating || !trainedModelId}
buttonDisabled(generating, modelId) == generating \/ modelId = <<>>

\* {!trainedModelId && (... Please train a model first ...)}
warningShown(modelId) == modelId = <<>>

\* <select onChange={(e) => setHorizon(parseInt(e.target.value))}>
SetHorizon(option) ==
    /\ horizon' = parseInt(valueString(option))
    /\ UNCHANGED <<trainedModelId, isGenerating, confidenceLevel,
                   onGenerateForecast>>
    /\ UNCHANGED <<chartVars, scoreVars, fnVars, tiVars, appVars>>

\* <select onChange={(e) => setConfidenceLevel(parseFloat(e.target.value))}>
SetConfidenceLevel(option) ==
    /\ confidenceLevel' = parseFloat(valueString(option))
    /\ UNCHANGED <<trainedModelId, isGenerating, horizon, onGenerateForecast>>
    /\ UNCHANGED <<chartVars, scoreVars, fnVars, tiVars, appVars>>

\* A render with new props from App.
SetControlProps(modelId, generating) ==
    /\ trainedModelId' = modelId
    /\ isGenerating' = generating
    /\ UNCHANGED <<horizon, confidenceLevel, onGenerateForecast>>
    /\ UNCHANGED <<chartVars, scoreVars, fnVars, tiVars, appVars>>

\* A click on the button; a disabled button dispatches no click.
\* onClick={() => onGenerateForecast(horizon, confidenceLevel)}
ClickGenerateForecast ==
    /\ ~buttonDisabled(isGenerating, trainedModelId)
    /\ onGenerateForecast.calls < MaxClicks
    /\ onGenerateForecast' = [calls |-> onGenerateForecast.calls + 1,
                              last |-> <<horizon, confidenceLevel>>]
    /\ UNCHANGED <<trainedModelId, isGenerating, horizon, confidenceLevel>>
    /\ UNCHANGED <<chartVars, scoreVars, fnVars, tiVars, appVars>>

NextControls ==
    \/ \E option \in horizonOptions : SetHorizon(option)
    \/ \E option \in confidenceOptions : SetConfidenceLevel(option)
    \/ \E modelId \in {<<>>} \cup ModelIds, generating \in BOOLEAN :
           SetControlProps(modelId, generating)
    \/ ClickGenerateForecast

SpecControls == Init /\ [][NextControls]_vars

(***************************************************************************)
(* App: the async handlers.  A handler runs up to its first `await` in the *)
(* step that calls it; it reads the state of the render it was created in, *)
(* so what it needs later (selectedInstrument, selectedModel, the model    *)
(* id) is kept in its task.  Each settled promise is one further step.     *)
(* The handlers are called whenever their own guards allow it: the         *)
(* `disabled` conditions of the buttons are the children's, not App's.     *)
(* An optional state value is <<>> (null) or <<value>>; what an API call   *)
(* returns is named by the arguments of the call.                          *)
(***************************************************************************)
MaxStarted == 2      \* handler calls that issue a request, per behaviour

Instruments == {[id |-> 1], [id |-> 2]}

Models == {"lstm"}

Outcomes == {"resolve", "reject"}

Task(fn, pc, instrumentId, model, modelId) ==
    [id |-> started + 1, fn |-> fn, pc |-> pc, instrument |-> instrumentId,
     model |-> model, modelId |-> modelId]

\* the model createModel(model_name) creates and trainModel trains, or the
\* one getModels().find(...) returns
ModelFor(model, instrumentId) ==
    <<[model_name |-> model, instrument_id |-> instrumentId]>>

\* const handleInstrumentChange = (instrument) => { ... }; the selector
\* passes undefined for its placeholder option
handleInstrumentChange(instrument) ==
    /\ instrument = <<>> \/ started < MaxStarted
    /\ app' = [app EXCEPT !.selectedInstrument = instrument,
                          !.trainedModelId = <<>>,
                          \* loadPriceData(instrument.id): setLoading(true)
                          !.loading = IF instrument # <<>> THEN TRUE ELSE @,
                          !.forecasts = <<>>,
                          !.performanceMetrics = <<>>]
    /\ IF instrument # <<>>
       THEN /\ tasks' = tasks \cup {Task("loadPriceData", "getPriceData",
                                          instrument[1].id, "", <<>>)}
            /\ started' = started + 1
       ELSE UNCHANGED <<tasks, started>>
    /\ UNCHANGED <<chartVars, scoreVars, fnVars, tiVars, fcVars>>

\* onModelChange={setSelectedModel}
setSelectedModel(model) ==
    /\ app' = [app EXCEPT !.selectedModel = model]
    /\ UNCHANGED <<tasks, started>>
    /\ UNCHANGED <<chartVars, scoreVars, fnVars, tiVars, fcVars>>

refreshData ==
    /\ app.selectedInstrument # <<>>
    /\ started < MaxStarted
    /\ app' = [app EXCEPT !.loading = TRUE, !.error = <<>>, !.success = <<>>]
    /\ tasks' = tasks \cup {Task("refreshData", "refreshPriceData",
                                  app.selectedInstrument[1].id, "", <<>>)}
    /\ started' = started + 1
    /\ UNCHANGED <<chartVars, scoreVars, fnVars, tiVars, fcVars>>

trainModel ==
    /\ app.selectedModel # "" /\ app.selectedInstrument # <<>>
    /\ started < MaxStarted
    /\ app' = [app EXCEPT !.isTraining = TRUE, !.error = <<>>]
    /\ tasks' = tasks \cup {Task("trainModel", "createModel",
                                  app.selectedInstrument[1].id,
                                  app.selectedModel, <<>>)}
    /\ started' = started + 1
    /\ UNCHANGED <<chartVars, scoreVars, fnVars, tiVars, fcVars>>

\* let modelId = trainedModelId; if (!modelId) { await getModels() ... }
evaluateModel ==
    /\ app.selectedModel # "" /\ app.selectedInstrument # <<>>
    /\ started < MaxStarted
    /\ app' = [app EXCEPT !.loading = TRUE, !.error = <<>>]
    /\ tasks' = tasks \cup {Task("evaluateModel",
                                  IF app.trainedModelId = <<>> THEN "getModels"
                                  ELSE "evaluateModel",
                                  app.selectedInstrument[1].id,
                                  app.selectedModel, app.trainedModelId)}
    /\ started' = started + 1
    /\ UNCHANGED <<chartVars, scoreVars, fnVars, tiVars, fcVars>>

\* generateForecast(horizon, confidenceLevel): the two arguments go into
\* the request and the success message only
generateForecast ==
    /\ app.selectedModel # "" /\ app.selectedInstrument # <<>>
    /\ started < MaxStarted
    /\ app' = [app EXCEPT !.isGenerating = TRUE, !.error = <<>>]
    /\ tasks' = tasks \cup {Task("generateForecast",
                                  IF app.trainedModelId = <<>> THEN "getModels"
                                  ELSE "generateForecast",
                                  app.selectedInstrument[1].id,
                                  app.selectedModel, app.trainedModelId)}
    /\ started' = started + 1
    /\ UNCHANGED <<chartVars, scoreVars, fnVars, tiVars, fcVars>>

\* A loadPriceData whose setLoading(false) is the last statement of the
\* try block instead of a finally block.
loadPriceDataSettledMutNoFinally(a, t, outcome) ==
    IF outcome = "resolve"
    THEN [a EXCEPT !.priceData = <<[instrument_id |-> t.instrument]>>,
                   !.loading = FALSE]
    ELSE [a EXCEPT !.error = <<"Failed to load price data">>]

\* loadPriceData after `await apiService.getPriceData(instrumentId, 1000)`
loadPriceDataSettled(a, t, outcome) ==
    IF outcome = "resolve"
    THEN [a EXCEPT !.priceData = <<[instrument_id |-> t.instrument]>>,
                   !.loading = FALSE]
    ELSE [a EXCEPT !.error = <<"Failed to load price data">>,
                   !.loading = FALSE]

SettleLoadPriceData(t, outcome) ==
    /\ t \in tasks /\ t.fn = "loadPriceData"
    /\ app' = loadPriceDataSettled(app, t, outcome)
    /\ tasks' = tasks \ {t}
    /\ UNCHANGED started
    /\ UNCHANGED <<chartVars, scoreVars, fnVars, tiVars, fcVars>>

\* refreshData after refreshPriceData (then it calls loadPriceData, which
\* sets loading again) and after the loadPriceData it awaits, which
\* catches its own rejection; both `finally` blocks set loading false
SettleRefreshData(t, outcome) ==
    /\ t \in tasks /\ t.fn = "refreshData"
    /\ IF t.pc = "refreshPriceData"
       THEN IF outcome = "resolve"
            THEN /\ app' = [app EXCEPT
                               !.success = <<"Data refreshed successfully">>,
                               !.loading = TRUE]
                 /\ tasks' = (tasks \ {t})
                                \cup {[t EXCEPT !.pc = "loadPriceData"]}
            ELSE /\ app' = [app EXCEPT !.error = <<"Failed to refresh data">>,
                                       !.loading = FALSE]
                 /\ tasks' = tasks \ {t}
       ELSE /\ app' = [loadPriceDataSettled(app, t, outcome)
                          EXCEPT !.loading = FALSE]
            /\ tasks' = tasks \ {t}
    /\ UNCHANGED started
    /\ UNCHANGED <<chartVars, scoreVars, fnVars, tiVars, fcVars>>

SettleTrainModel(t, outcome) ==
    /\ t \in tasks /\ t.fn = "trainModel"
    /\ IF outcome = "reject"
       THEN /\ app' = [app EXCEPT !.error = <<"Failed to train model">>,
                                  !.isTraining = FALSE]
            /\ tasks' = tasks \ {t}
       ELSE IF t.pc = "createModel"
       THEN /\ app' = app
            /\ tasks' = (tasks \ {t})
                           \cup {[t EXCEPT !.pc = "trainModel",
                                           !.modelId = ModelFor(t.model,
                                                                t.instrument)]}
       ELSE /\ app' = [app EXCEPT !.success = <<"model trained successfully">>,
                                  !.trainedModelId = t.modelId,
                                  !.isTraining = FALSE]
            /\ tasks' = tasks \ {t}
    /\ UNCHANGED started
    /\ UNCHANGED <<chartVars, scoreVars, fnVars, tiVars, fcVars>>

\* evaluateModel after getModels (found says whether modelsData.find(...)
\* returns a model) and after apiService.evaluateModel
SettleEvaluateModel(t, outcome, found) ==
    /\ t \in tasks /\ t.fn = "evaluateModel"
    /\ IF outcome = "reject"
       THEN /\ app' = [app EXCEPT !.error = <<"Failed to evaluate model">>,
                                  !.loading = FALSE]
            /\ tasks' = tasks \ {t}
       ELSE IF t.pc = "getModels"
       THEN IF found
            THEN /\ app' = app
                 /\ tasks' = (tasks \ {t})
                                \cup {[t EXCEPT !.pc = "evaluateModel",
                                                !.modelId = ModelFor(
                                                    t.model, t.instrument)]}
            ELSE /\ app' = [app EXCEPT
                     !.error = <<"Model not found. Please train the model first.">>,
                     !.loading = FALSE]
                 /\ tasks' = tasks \ {t}
       ELSE /\ app' = [app EXCEPT
                          !.performanceMetrics =
                              <<[model |-> t.modelId[1],
                                 instrument_id |-> t.instrument]>>,
                          !.success = <<"Model evaluation completed">>,
                          !.loading = FALSE]
            /\ tasks' = tasks \ {t}
    /\ UNCHANGED started
    /\ UNCHANGED <<chartVars, scoreVars, fnVars, tiVars, fcVars>>

SettleGenerateForecast(t, outcome, found) ==
    /\ t \in tasks /\ t.fn = "generateForecast"
    /\ IF outcome = "reject"
       THEN /\ app' = [app EXCEPT !.error = <<"Failed to generate forecast">>,
                                  !.isGenerating = FALSE]
            /\ tasks' = tasks \ {t}
       ELSE IF t.pc = "getModels"
       THEN IF found
            THEN /\ app' = app
                 /\ tasks' = (tasks \ {t})
                                \cup {[t EXCEPT !.pc = "generateForecast",
                                                !.modelId = ModelFor(
                                                    t.model, t.instrument)]}
            ELSE /\ app' = [app EXCEPT
                     !.error = <<"Model not found. Please train the model first.">>,
                     !.isGenerating = FALSE]
                 /\ tasks' = tasks \ {t}
       ELSE /\ app' = [app EXCEPT
                          !.forecasts = <<[model |-> t.modelId[1],
                                           instrument_id |-> t.instrument]>>,
                          !.success = <<"Forecast generated">>,
                          !.isGenerating = FALSE]
            /\ tasks' = tasks \ {t}
    /\ UNCHANGED started
    /\ UNCHANGED <<chartVars, scoreVars, fnVars, tiVars, fcVars>>

\* the promise the call numbered id waits for settles
Settle(id) ==
    \E t \in tasks, outcome \in Outcomes, found \in BOOLEAN :
        /\ t.id = id
        /\ \/ SettleLoadPriceData(t, outcome)
           \/ SettleRefreshData(t, outcome)
           \/ SettleTrainModel(t, outcome)
           \/ SettleEvaluateModel(t, outcome, found)
           \/ SettleGenerateForecast(t, outcome, found)

NextApp ==
    \/ \E instrument \in {<<>>} \cup {<<i>> : i \in Instruments} :
           handleInstrumentChange(instrument)
    \/ \E model \in {""} \cup Models : setSelectedModel(model)
    \/ refreshData
    \/ trainModel
    \/ evaluateModel
    \/ generateForecast
    \/ \E t \in tasks, outcome \in Outcomes : SettleLoadPriceData(t, outcome)
    \/ \E t \in tasks, outcome \in Outcomes : SettleRefreshData(t, outcome)
    \/ \E t \in tasks, outcome \in Outcomes : SettleTrainModel(t, outcome)
    \/ \E t \in tasks, outcome \in Outcomes, found \in BOOLEAN :
           SettleEvaluateModel(t, outcome, found)
    \/ \E t \in tasks, outcome \in Outcomes, found \in BOOLEAN :
           SettleGenerateForecast(t, outcome, found)

SpecApp == Init /\ [][NextApp]_vars

\* every API promise settles
SpecAppFair == SpecApp /\ \A id \in 1..MaxStarted : WF_vars(Settle(id))

(***************************************************************************)
(* Properties of the chart component                                       *)
(***************************************************************************)
StrictlyAscending(s) ==
    \A i, j \in 1..Len(s) : i < j => s[i].time < s[j].time

Candle(d) == [time |-> timestamp(d), open |-> d.open_price,
              high |-> d.high_price, low |-> d.low_price,
              close |-> d.close_price]

\* index of the last record of priceData carrying the timestamp of record i
LastWith(i) ==
    CHOOSE j \in 1..Len(priceData) :
        /\ timestamp(priceData[j]) = timestamp(priceData[i])
        /\ \A h \in (j + 1)..Len(priceData) :
               timestamp(priceData[h]) # timestamp(priceData[i])

\* C1: for a forecast of N >= 1 predictions the confidence band handed to
\* the chart has 2N points, the N upper bounds in ascending time followed
\* by the N lower bounds in descending time; no upper bound is overwritten
\* by the lower bound of the same timestamp.
C1_ConfidenceBandPolygon ==
    (effect.forecast = "set" /\ Len(forecasts[1].predictions) >= 1) =>
        LET f == forecasts[1]
            n == Len(f.predictions)
            last == lastTime(uniqueData(priceData, timeRange))
        IN  /\ Len(confidenceSeries) = 2 * n
            /\ \A j \in 1..n :
                   confidenceSeries[j] =
                       [time |-> forecastTime(last, j - 1),
                        value |-> f.confidence_intervals.upper[j]]
            /\ \A j \in 1..n :
                   confidenceSeries[n + j] =
                       [time |-> forecastTime(last, n - j),
                        value |-> f.confidence_intervals.lower[n - j + 1]]

\* C3: every overlay sequence handed to the chart (forecast line,
\* confidence band, prediction-error overlay, portfolio-value line) has
\* one point per time key and is sorted ascending by time.
C3_OverlaysDedupSorted ==
    /\ effect.forecast = "set" =>
           StrictlyAscending(forecastSeries) /\ StrictlyAscending(confidenceSeries)
    /\ effect.error = "set" => StrictlyAscending(errorSeries)
    /\ effect.portfolio = "set" => StrictlyAscending(portfolioValueSeries)

\* C4: when records of priceData share a timestamp, the series handed to
\* the chart hold exactly one point at that timestamp, and it is the last
\* of those records (the sort is stable, so the last one after the sort
\* is the last one of the raw array).
C4_DedupLastWins ==
    effect.price = "set" =>
        \A i \in 1..Len(priceData) :
            LET t == timestamp(priceData[i])
                d == priceData[LastWith(i)]
            IN  /\ Cardinality({k \in 1..Len(candlestickSeries) :
                                    candlestickSeries[k].time = t}) = 1
                /\ \E k \in 1..Len(candlestickSeries) :
                       candlestickSeries[k] = Candle(d)
                /\ Cardinality({k \in 1..Len(volumeSeries) :
                                    volumeSeries[k].time = t}) = 1
                /\ \E k \in 1..Len(volumeSeries) :
                       /\ volumeSeries[k].time = t
                       /\ volumeSeries[k].value = d.volume
                       /\ volumeSeries[k].color =
                              (IF d.close_price >= d.open_price
                               THEN "#00ff9f" ELSE "#ff4444")
                /\ \E k \in 1..Len(uniqueData(priceData, timeRange)) :
                       uniqueData(priceData, timeRange)[k] = d

\* C4 witness: two records with the same timestamp and different closes
\* were normalized and drawn.
C4_Witness ==
    /\ effect.price = "set"
    /\ \E i, j \in 1..Len(priceData) :
           /\ i < j
           /\ priceData[i].date = priceData[j].date
           /\ priceData[i].close_price # priceData[j].close_price
    /\ Len(candlestickSeries) >= 2

\* C5: for every raw price input the normalized series and the candlestick
\* and volume sequences have strictly increasing timestamps, and every
\* distinct input timestamp appears exactly once.
C5_StrictlyIncreasingComplete ==
    LET u == uniqueData(priceData, timeRange)
        stamps == {timestamp(priceData[i]) : i \in 1..Len(priceData)}
    IN  /\ \A i, j \in 1..Len(u) : i < j => timestamp(u[i]) < timestamp(u[j])
        /\ {timestamp(u[i]) : i \in 1..Len(u)} = stamps
        /\ Len(u) = Cardinality(stamps)
        /\ effect.price = "set" =>
               /\ StrictlyAscending(candlestickSeries)
               /\ StrictlyAscending(volumeSeries)
               /\ {candlestickSeries[k].time : k \in 1..Len(candlestickSeries)}
                      = stamps
               /\ {volumeSeries[k].time : k \in 1..Len(volumeSeries)} = stamps
               /\ Len(candlestickSeries) = Cardinality(stamps)
               /\ Len(volumeSeries) = Cardinality(stamps)

\* C5 witness: an out-of-order input with a repeated timestamp was drawn.
C5_Witness ==
    /\ effect.price = "set"
    /\ Len(priceData) = 3
    /\ priceData[1].date > priceData[2].date
    /\ priceData[3].date = priceData[2].date
    /\ Len(candlestickSeries) = 2

IsNormalized(data) ==
    \A i, j \in 1..Len(data) : i < j => data[i].date < data[j].date

\* C6: the normalization returns an already normalized series unchanged,
\* and normalizing its own output changes nothing.
C6_NormalizerIdempotent ==
    LET u == uniqueData(priceData, timeRange)
    IN  /\ IsNormalized(priceData) => u = priceData
        /\ uniqueData(u, timeRange) = u
        /\ (IsNormalized(priceData) /\ effect.price = "set") =>
               candlestickSeries = [i \in 1..Len(priceData) |->
                                       Candle(priceData[i])]

\* C6 witness: an already normalized two-point series was normalized and
\* drawn.
C6_Witness ==
    /\ effect.price = "set"
    /\ Len(priceData) >= 2
    /\ IsNormalized(priceData)
    /\ Len(candlestickSeries) = Len(priceData)

\* C7: once priceData is empty every sequence held by the chart is empty;
\* nothing of an earlier non-empty input is left.
C7_EmptyPriceEmptiesChart ==
    Len(priceData) = 0 =>
        /\ candlestickSeries = <<>>
        /\ volumeSeries = <<>>
        /\ forecastSeries = <<>>
        /\ confidenceSeries = <<>>
        /\ errorSeries = <<>>
        /\ portfolioValueSeries = <<>>

\* C8: an overlay whose own input is present is computed whatever the
\* other optional inputs are: the error overlay from non-empty
\* predictionErrors and a non-empty price series with or without a
\* forecast, the portfolio line whenever there is a price series, the
\* forecast whenever there is a forecast and a price series.
C8_OverlaysIndependent ==
    /\ (effect.error # "idle" /\ chartReady /\ Len(predictionErrors) > 0
            /\ Len(priceData) > 0) =>
           /\ effect.error = "set"
           /\ errorSeries =
                  errorData(predictionErrors,
                            lastTime(uniqueData(priceData, timeRange)))
    /\ (effect.portfolio # "idle" /\ chartReady
            /\ Len(portfolioValueHistory) > 0 /\ Len(priceData) > 0) =>
           effect.portfolio = "set"
    /\ (effect.forecast # "idle" /\ chartReady /\ forecasts # <<>>
            /\ Len(priceData) > 0) =>
           effect.forecast = "set"

Finite(x) == IsNum(x)

\* C2: for any four finite numeric inputs, 0 included, calculateOverallScore
\* returns a number of {20, 30, ..., 100}: never null or undefined, never
\* below 20, always a multiple of 5.
C2_ScoreBounded ==
    (/\ metrics # <<>>
     /\ Finite(metrics[1].rmse) /\ Finite(metrics[1].mae)
     /\ Finite(metrics[1].mape) /\ Finite(metrics[1].directional_accuracy)) =>
        /\ IsNum(overallScore)
        /\ overallScore \in {Whole(k) : k \in {20, 30, 40, 50, 60, 70, 80, 90, 100}}
        /\ overallScore[2] % (5 * Scale) = 0

\* C9: every indicator function, given an input shorter than its lookback
\* period (the empty input included), returns an empty output and does not
\* throw.
C9_ShortInputEmpty ==
    (fnCall.fn # "none" /\ Len(fnCall.prices) < fnCall.period) =>
        /\ ~fnResult.threw
        /\ fnCall.fn \in {"calculateRSI", "calculateEMA", "calculateStochastic"}
               => fnResult.out = <<>>
        /\ fnCall.fn = "calculateMACD" =>
               /\ fnResult.out.macdLine = <<>>
               /\ fnResult.out.signalLine = <<>>
               /\ fnResult.out.histogram = <<>>
        /\ fnCall.fn = "calculateBollingerBands" =>
               /\ fnResult.out.sma = <<>>
               /\ fnResult.out.upperBand = <<>>
               /\ fnResult.out.lowerBand = <<>>

\* C9 as amended: on an input shorter than the lookback period no function
\* throws; calculateRSI, calculateBollingerBands and calculateStochastic
\* return empty outputs; calculateEMA and calculateMACD do not truncate:
\* their outputs have the length of a non-empty input, and for the empty
\* input one sample, undefined for calculateEMA and NaN for the three
\* MACD lines.
C9_ShortInputAmended ==
    (fnCall.fn # "none" /\ Len(fnCall.prices) < fnCall.period) =>
        LET n == Len(fnCall.prices)
            kept == IF n = 0 THEN 1 ELSE n
        IN  /\ ~fnResult.threw
            /\ fnCall.fn \in {"calculateRSI", "calculateStochastic"}
                   => fnResult.out = <<>>
            /\ fnCall.fn = "calculateBollingerBands" =>
                   /\ fnResult.out.sma = <<>>
                   /\ fnResult.out.upperBand = <<>>
                   /\ fnResult.out.lowerBand = <<>>
            /\ fnCall.fn = "calculateEMA" =>
                   /\ Len(fnResult.out) = kept
                   /\ n = 0 => fnResult.out = <<Undefined>>
                   /\ n > 0 => \A i \in 1..n : IsNum(fnResult.out[i])
            /\ fnCall.fn = "calculateMACD" =>
                   /\ Len(fnResult.out.macdLine) = kept
                   /\ Len(fnResult.out.signalLine) = kept
                   /\ Len(fnResult.out.histogram) = kept
                   /\ n = 0 => /\ fnResult.out.macdLine = <<NaN>>
                               /\ fnResult.out.signalLine = <<NaN>>
                               /\ fnResult.out.histogram = <<NaN>>

\* C9 witness: calculateEMA was called on a non-empty input shorter than
\* its period and returned as many samples as it was given.
C9_Witness ==
    /\ fnCall.fn = "calculateEMA"
    /\ Len(fnCall.prices) = 2
    /\ fnCall.period = 3
    /\ Len(fnResult.out) = 2

Column(data, field) ==
    [i \in 1..Len(data) |->
        Whole(CASE field = "close" -> data[i].close_price
                [] field = "high" -> data[i].high_price
                [] field = "low" -> data[i].low_price)]

\* C10: the indicators are computed over the normalized (de-duplicated,
\* time-ascending) price series, so raw inputs that normalize to the same
\* series give the same indicator outputs.
C10_IndicatorsOverNormalized ==
    (Len(tiPriceData) >= 20 /\ indicators # <<>>) =>
        LET u == uniqueData(tiPriceData, "1w")
        IN  /\ indicators[1].rsi = calculateRSI(Column(u, "close"), 14)
            /\ indicators[1].macd = calculateMACD(Column(u, "close"), 12, 26, 9)
            /\ indicators[1].bollinger =
                   calculateBollingerBands(Column(u, "close"), 20, 2)
            /\ indicators[1].stochastic =
                   calculateStochastic(Column(u, "high"), Column(u, "low"),
                                       Column(u, "close"), 14)

\* C11: every indicator value of chartData row i (0-based) is the sample its
\* indicator computed for the window ending at the row's own price point,
\* input index 19 + i.  Sample k of calculateRSI(14) ends at input index
\* 14 + k, of calculateStochastic(14) at 13 + k, of
\* calculateBollingerBands(20) at 19 + k, and of the MACD lines at k.
C11_RowsAligned ==
    (Len(tiPriceData) >= 20 /\ indicators # <<>>) =>
        LET ind == indicators[1]
        IN  \A r \in 1..Len(ind.chartData) :
                LET row == ind.chartData[r]
                    index == 19 + (r - 1)
                IN  /\ row.timestamp = tiPriceData[index + 1].date
                    /\ row.bbUpper = OrNull(At(ind.bollinger.upperBand, index - 19))
                    /\ row.bbMiddle = OrNull(At(ind.bollinger.sma, index - 19))
                    /\ row.bbLower = OrNull(At(ind.bollinger.lowerBand, index - 19))
                    /\ row.rsi = OrNull(At(ind.rsi, index - 14))
                    /\ row.stochastic = OrNull(At(ind.stochastic, index - 13))
                    /\ row.macd = OrNull(At(ind.macd.macdLine, index))
                    /\ row.signal = OrNull(At(ind.macd.signalLine, index))
                    /\ row.histogram = OrNull(At(ind.macd.histogram, index))

\* The bucket of an error metric (lower is better) and of the directional
\* accuracy (higher is better), over the metric's value in 1/Scale units.
ErrorBucket(v, best, fair) ==
    IF v < best THEN 25 ELSE IF v < fair THEN 15 ELSE 5

AccuracyBucket(v, best, fair) ==
    IF v > best THEN 25 ELSE IF v > fair THEN 15 ELSE 5

AllPresent(m) ==
    /\ IsNum(m.rmse)
    /\ IsNum(m.mae)
    /\ IsNum(m.mape)
    /\ IsNum(m.directional_accuracy)

\* C12: when all four metrics are present the overall score is the sum of
\* four bucket lookups, each depending on its own metric only: RMSE < 2 gives
\* 25, < 5 gives 15, else 5; MAE < 1.5 gives 25, < 3 gives 15, else 5;
\* MAPE < 2 gives 25, < 5 gives 15, else 5; directional accuracy > 65 gives
\* 25, > 55 gives 15, else 5.
C12_BucketSum ==
    (metrics # <<>> /\ AllPresent(metrics[1])) =>
        LET m == metrics[1]
        IN  overallScore =
                <<"num", Scale * (ErrorBucket(m.rmse[2], 2 * Scale, 5 * Scale)
                                  + ErrorBucket(m.mae[2], (3 * Scale) \div 2, 3 * Scale)
                                  + ErrorBucket(m.mape[2], 2 * Scale, 5 * Scale)
                                  + AccuracyBucket(m.directional_accuracy[2],
                                                   65 * Scale, 55 * Scale))>>

SomeMissing(m) ==
    \E v \in {m.rmse, m.mae, m.mape, m.directional_accuracy} :
        v \in {Undefined, Null}

\* C13: when at least one of rmse, mae, mape, directional_accuracy is absent
\* or null the overall score is null (never 0, never a partial sum) and the
\* overall-score card and the insights, both rendered under
\* `overallScore !== null`, are not shown; when metrics is null or an empty
\* object the component renders nothing (the scorer is not evaluated).
C13_MissingMetricNull ==
    /\ (metrics = <<>>) => (overallScore = Undefined /\ scoreLabel = "none")
    /\ (metrics # <<>> /\ IsEmptyObject(metrics[1])) =>
           (overallScore = Undefined /\ scoreLabel = "none")
    /\ (metrics # <<>> /\ ~IsEmptyObject(metrics[1]) /\ SomeMissing(metrics[1])) =>
           (overallScore = Null /\ scoreLabel = "none")

\* a render with rmse null and the other three metrics present
C13_Witness ==
    /\ metrics # <<>>
    /\ metrics[1].rmse = Null
    /\ IsNum(metrics[1].mae) /\ metrics[1].mae # Whole(0)
    /\ IsNum(metrics[1].mape) /\ metrics[1].mape # Whole(0)
    /\ IsNum(metrics[1].directional_accuracy)
    /\ metrics[1].directional_accuracy # Whole(0)
    /\ overallScore = Null

\* C14: the label is a function of the score alone: 'Excellent' for
\* score >= 80, 'Good' for 60 <= score < 80, 'Needs Improvement' otherwise;
\* {rmse 1.5, mae 1.0, mape 1.5, directional_accuracy 70} scores 100 and is
\* 'Excellent', {6, 4, 6, 50} scores 20 and is 'Needs Improvement'.
C14_LabelFromScore ==
    /\ IsNum(overallScore) =>
           scoreLabel = IF overallScore[2] >= 80 * Scale THEN "Excellent"
                        ELSE IF overallScore[2] >= 60 * Scale THEN "Good"
                        ELSE "Needs Improvement"
    /\ (metrics = <<ExcellentMetrics>>) =>
           (overallScore = <<"num", 100 * Scale>> /\ scoreLabel = "Excellent")
    /\ (metrics = <<PoorMetrics>>) =>
           (overallScore = <<"num", 20 * Scale>>
                /\ scoreLabel = "Needs Improvement")

\* a score on the 'Excellent' threshold
C14_Witness ==
    /\ overallScore = <<"num", 80 * Scale>>
    /\ scoreLabel = "Excellent"

\* C15: prediction index j is placed at lastPriceTimestamp + (j + 1) * 3600,
\* identically for the point forecast, both confidence bounds and every
\* PredictionError with prediction_index j, so that all forecast times are
\* strictly later than every price time and strictly increasing in j.
C15_SyntheticTimes ==
    LET u == uniqueData(priceData, timeRange)
        last == timestamp(u[Len(u)])
    IN  /\ (effect.forecast = "set") =>
               LET n == Len(forecasts[1].predictions)
                   times == {last + (j + 1) * 3600 : j \in 0..(n - 1)}
               IN  /\ Len(forecastSeries) = n
                   /\ \A j \in 0..(n - 1) :
                          /\ forecastSeries[j + 1].time = last + (j + 1) * 3600
                          /\ forecastSeries[j + 1].value
                                 = forecasts[1].predictions[j + 1]
                          /\ \A i \in 1..Len(u) :
                                 timestamp(u[i]) < forecastSeries[j + 1].time
                   /\ StrictlyAscending(forecastSeries)
                   /\ {confidenceSeries[k].time : k \in 1..Len(confidenceSeries)}
                          = times
        /\ (effect.error = "set") =>
               /\ Len(errorSeries) = Len(predictionErrors)
               /\ \A i \in 1..Len(predictionErrors) :
                      errorSeries[i].time
                          = last + (predictionErrors[i].prediction_index + 1) * 3600

\* a commit that placed two predictions and the prediction errors
C15_Witness ==
    /\ effect.forecast = "set"
    /\ effect.error = "set"
    /\ Len(forecastSeries) >= 2
    /\ Len(errorSeries) >= 1

\* The timestamp of the point of the normalized series u nearest in time to
\* the metric, the first such point in series order when several are nearest.
NearestTime(u, metric) ==
    LET diff(i) == Abs(u[i].date - metric.metric_date)
        first == CHOOSE i \in 1..Len(u) :
                     /\ \A k \in 1..Len(u) : diff(i) <= diff(k)
                     /\ \A k \in 1..(i - 1) : diff(k) > diff(i)
    IN  u[first].date \div 1000

\* C16: each portfolio metric point gets the timestamp of the point of the
\* normalized price series with the smallest absolute time difference from
\* its metric_date; on a tie the first such point in series order wins.
C16_PortfolioNearest ==
    (effect.portfolio = "set") =>
        LET u == uniqueData(priceData, timeRange)
        IN  /\ {portfolioValueSeries[k].time :
                    k \in 1..Len(portfolioValueSeries)}
                   = {NearestTime(u, portfolioValueHistory[i]) :
                          i \in 1..Len(portfolioValueHistory)}
            /\ StrictlyAscending(portfolioValueSeries)

\* a committed portfolio series for a metric halfway between two price points
C16_Witness ==
    /\ effect.portfolio = "set"
    /\ Len(portfolioValueSeries) >= 1
    /\ \E i \in 1..Len(portfolioValueHistory) :
           \E a, b \in 1..Len(priceData) :
               /\ priceData[a].date # priceData[b].date
               /\ Abs(priceData[a].date - portfolioValueHistory[i].metric_date)
                      = Abs(priceData[b].date
                                - portfolioValueHistory[i].metric_date)

\* C17: for every closes sequence longer than the period every value of
\* calculateRSI is a finite number in [0, 100], and a window whose losses
\* are all zero (no close below its predecessor) yields exactly 100.
C17_RSIBounded ==
    (fnCall.fn = "calculateRSI" /\ Len(fnCall.prices) > fnCall.period) =>
        /\ ~fnResult.threw
        /\ \A k \in 1..Len(fnResult.out) :
               /\ IsNum(fnResult.out[k])
               /\ fnResult.out[k][2] >= 0
               /\ fnResult.out[k][2] <= 100 * Scale
               /\ (\A i \in k..(k + fnCall.period - 1) :
                       fnCall.prices[i + 1][2] >= fnCall.prices[i][2])
                      => fnResult.out[k] = <<"num", 100 * Scale>>

\* a call whose first window has no gain and no loss and whose last window
\* has a loss
C17_Witness ==
    /\ fnCall.fn = "calculateRSI"
    /\ Len(fnCall.prices) > fnCall.period
    /\ Len(fnResult.out) >= 2
    /\ \A i \in 1..fnCall.period : fnCall.prices[i + 1] = fnCall.prices[i]
    /\ fnResult.out[1] = <<"num", 100 * Scale>>
    /\ fnResult.out[Len(fnResult.out)][2] < 100 * Scale

\* C18: for n closes with n >= period, calculateRSI returns exactly
\* n - period values (15 closes with period 14 give exactly 1 value), and
\* each array of calculateBollingerBands and calculateStochastic hold
\* exactly n - period + 1 values.
C18_OutputLengths ==
    LET n == Len(fnCall.prices)
        period == fnCall.period
    IN  /\ (fnCall.fn = "calculateRSI" /\ n >= period) =>
               Len(fnResult.out) = n - period
        /\ (fnCall.fn = "calculateRSI" /\ n = 15 /\ period = 14) =>
               Len(fnResult.out) = 1
        /\ (fnCall.fn = "calculateBollingerBands" /\ n >= period) =>
               /\ Len(fnResult.out.sma) = n - period + 1
               /\ Len(fnResult.out.upperBand) = n - period + 1
               /\ Len(fnResult.out.lowerBand) = n - period + 1
        /\ (fnCall.fn = "calculateStochastic" /\ n >= period) =>
               Len(fnResult.out) = n - period + 1

\* the call of calculateRSI with 15 closes and period 14
C18_Witness ==
    /\ fnCall.fn = "calculateRSI"
    /\ Len(fnCall.prices) = 15
    /\ fnCall.period = 14
    /\ Len(fnResult.out) = 1
    /\ IsNum(fnResult.out[1])

\* C19: for a non-empty series and a period >= 1, calculateEMA returns a
\* sequence of the same length with ema[0] = series[0] and
\* ema[i] = series[i] * k + ema[i - 1] * (1 - k), k = 2 / (period + 1).
C19_EMARecurrence ==
    (fnCall.fn = "calculateEMA" /\ Len(fnCall.prices) >= 1) =>
        LET series == fnCall.prices
            ema == fnResult.out
            k == Div(<<"num", 2 * Scale>>, <<"num", (fnCall.period + 1) * Scale>>)
        IN  /\ Len(ema) = Len(series)
            /\ ema[1] = series[1]
            /\ \A i \in 2..Len(series) :
                   ema[i] = Add(Mul(series[i], k),
                                Mul(ema[i - 1], Sub(<<"num", Scale>>, k)))

\* a call whose third sample is smoothed away from the third price
C19_Witness ==
    /\ fnCall.fn = "calculateEMA"
    /\ fnCall.period >= 2
    /\ Len(fnCall.prices) >= 3
    /\ Len(fnResult.out) = Len(fnCall.prices)
    /\ fnResult.out[3] # fnCall.prices[3]
    /\ IsNum(fnResult.out[3])

RECURSIVE SumValues(_, _, _)
SumValues(s, from, to) ==
    IF from > to THEN 0 ELSE s[from][2] + SumValues(s, from + 1, to)

RECURSIVE SumSquares(_, _, _, _)
SumSquares(s, mean, from, to) ==
    IF from > to THEN 0
    ELSE ((s[from][2] - mean) * (s[from][2] - mean)) \div Scale
             + SumSquares(s, mean, from + 1, to)

C22_MinimumDataPrecheck ==
    /\ [](Len(tiPriceData) < 20 =>
              renderTechnicalIndicators(tiPriceData, indicators)
                  = "insufficient-data")
    /\ [][Len(tiPriceData') < 20 => indicators' = indicators]_vars
    /\ [](Len(tiPriceData) >= 20 =>
              /\ indicators # <<>>
              /\ LET closes == [i \in 1..Len(tiPriceData) |->
                                   Whole(tiPriceData[i].close_price)]
                     highs == [i \in 1..Len(tiPriceData) |->
                                  Whole(tiPriceData[i].high_price)]
                     lows == [i \in 1..Len(tiPriceData) |->
                                 Whole(tiPriceData[i].low_price)]
                 IN  /\ indicators[1].rsi = calculateRSI(closes, 14)
                     /\ indicators[1].macd = calculateMACD(closes, 12, 26, 9)
                     /\ indicators[1].bollinger
                            = calculateBollingerBands(closes, 20, 2)
                     /\ indicators[1].stochastic
                            = calculateStochastic(highs, lows, closes, 14)
              /\ renderTechnicalIndicators(tiPriceData, indicators)
                     = "chart-with-values")

\* 19 points received after an input of 20 or more points
C22_Witness ==
    /\ Len(tiPriceData) = 19
    /\ indicators # <<>>
    /\ Len(indicators[1].chartData) >= 1

\* C24: calculateStochastic has no guard for highestHigh = lowestLow: for a
\* window whose highest high equals its lowest low it still emits a sample
\* (the output length is unchanged), and that sample is the result of a
\* division by zero, not a finite number in [0, 100].
C24_FlatStochasticWindow ==
    (fnCall.fn = "calculateStochastic") =>
        LET n == Len(fnCall.prices)
            period == fnCall.period
            high(i) == fnCall.prices[i][2] + fnCall.spread * Scale
            low(i) == fnCall.prices[i][2] - fnCall.spread * Scale
            flat(k) == \A i, j \in k..(k + period - 1) : high(i) = low(j)
        IN  /\ Len(fnResult.out) = IF n >= period THEN n - period + 1 ELSE 0
            /\ \A k \in 1..Len(fnResult.out) :
                   flat(k) => fnResult.out[k] \in {NaN, PosInf, NegInf}

\* a call with a flat window followed by a window that is not flat
C24_Witness ==
    /\ fnCall.fn = "calculateStochastic"
    /\ fnCall.spread = 0
    /\ fnCall.period = 2
    /\ Len(fnResult.out) = 3
    /\ fnCall.prices[1] = fnCall.prices[2]
    /\ fnResult.out[1] = NaN
    /\ IsNum(fnResult.out[3])

\* C25: after any sequence of fullscreen toggles and prop changes, once the
\* effects have settled with chartReady true and priceData non-empty, the
\* series of the chart that is live hold the data derived from the current
\* props; in particular the chart re-created by a fullscreen toggle receives
\* the candlestick, volume, forecast and overlay data again.
C25_LiveChartHoldsData ==
    (chartReady /\ chart = "live" /\ Len(priceData) > 0) =>
        LET u == uniqueData(priceData, timeRange)
        IN  /\ candlestickSeries = candlestickData(u)
            /\ volumeSeries = volumeData(u)
            /\ (forecasts # <<>>) =>
                   /\ forecastSeries = forecastData(forecasts[1], lastTime(u))
                   /\ confidenceSeries
                          = confidenceData(forecasts[1], lastTime(u))
            /\ (forecasts # <<>> /\ Len(predictionErrors) > 0) =>
                   errorSeries = errorData(predictionErrors, lastTime(u))
            /\ (Len(portfolioValueHistory) > 0) =>
                   portfolioValueSeries
                       = uniquePortfolioData(portfolioValueHistory, u,
                                             initialCapital)

\* C26: in a mounted CandlestickChart, whenever priceData changes from empty
\* to non-empty a chart is created and chartReady becomes true without any
\* further user action, and the price data is drawn.  A commit with all the
\* effects and re-renders it causes is one step, and nothing but a user
\* action or a new prop follows it, so the chart has to be there in the
\* state the step ends in.
C26_ChartCreatedOnData ==
    [][(Len(priceData) = 0 /\ Len(priceData') > 0) =>
           /\ chartReady'
           /\ chart' = "live"
           /\ candlestickSeries'
                  = candlestickData(uniqueData(priceData', timeRange'))]_vars

\* C29: every point of the portfolio overlay carries exactly the total_value
\* of the portfolio metric mapped to it, the last-processed metric of its
\* time key, for every numeric total_value, 0 included; the initialCapital /
\* 10000 fallback is for an absent total_value only.
C29_PortfolioStoredValue ==
    (effect.portfolio = "set") =>
        LET u == uniqueData(priceData, timeRange)
            n == Len(portfolioValueHistory)
        IN  \A k \in 1..Len(portfolioValueSeries) :
                \E i \in 1..n :
                    /\ NearestTime(u, portfolioValueHistory[i])
                           = portfolioValueSeries[k].time
                    /\ \A j \in (i + 1)..n :
                           NearestTime(u, portfolioValueHistory[j])
                               # portfolioValueSeries[k].time
                    /\ portfolioValueSeries[k].value
                           = portfolioValueHistory[i].total_value

\* C23: the Generate Forecast button is disabled whenever trainedModelId is
\* null or isGenerating is true, and the 'Please train a model first'
\* warning is shown exactly when trainedModelId is null; when the button is
\* enabled a click calls onGenerateForecast exactly once with the currently
\* selected horizon and confidence level, which are 24 and 0.95 until
\* changed.
C23_ForecastGated ==
    /\ horizon = 24 /\ confidenceLevel = <<"num", 950>>
    /\ [](/\ (trainedModelId = <<>> \/ isGenerating)
                 => buttonDisabled(isGenerating, trainedModelId)
          /\ warningShown(trainedModelId) <=> (trainedModelId = <<>>))
    /\ [][(onGenerateForecast' # onGenerateForecast) =>
              /\ trainedModelId # <<>>
              /\ ~isGenerating
              /\ onGenerateForecast'.calls = onGenerateForecast.calls + 1
              /\ onGenerateForecast'.last = <<horizon, confidenceLevel>>]_vars
    /\ [][(horizon' # horizon) =>
              /\ horizon' \in {1, 3, 24, 72, 168}
              /\ UNCHANGED <<trainedModelId, isGenerating, confidenceLevel,
                             onGenerateForecast>>]_vars
    /\ [][(confidenceLevel' # confidenceLevel) =>
              /\ confidenceLevel' \in {<<"num", 900>>, <<"num", 950>>,
                                       <<"num", 990>>}
              /\ UNCHANGED <<trainedModelId, isGenerating, horizon,
                             onGenerateForecast>>]_vars

\* a click with the initial selection and a later click with another one
C23_Witness ==
    /\ onGenerateForecast.calls = 2
    /\ onGenerateForecast.last = <<72, <<"num", 990>>>>
    /\ trainedModelId # <<>>
    /\ ~isGenerating

\* C27: under any interleaving of instrument changes and refreshes, and any
\* order of the responses, once no price-data request is in flight the
\* priceData shown is the response to a request for the currently selected
\* instrument (here: whenever no request failed either, so that the data
\* shown is some response).
C27_PriceDataOfSelected ==
    (/\ ~\E t \in tasks : t.fn \in {"loadPriceData", "refreshData"}
     /\ app.error = <<>>
     /\ app.selectedInstrument # <<>>
     /\ app.priceData # <<>>)
        => app.priceData[1].instrument_id = app.selectedInstrument[1].id

\* C28: after an instrument change trainedModelId, forecasts and
\* performanceMetrics are null, and whenever one of them is non-null it was
\* produced by a call issued for the currently selected instrument.
C28_ResultsOfSelected ==
    \A result \in {app.trainedModelId, app.forecasts, app.performanceMetrics} :
        result # <<>> =>
            /\ app.selectedInstrument # <<>>
            /\ result[1].instrument_id = app.selectedInstrument[1].id

\* C30: every started loadPriceData, refreshData, trainModel, evaluateModel
\* and generateForecast call whose promises settle comes to its end and
\* leaves its busy flag false: with no call on a flag in flight the flag is
\* false, also after the 'Model not found' return, and a flag that is true
\* becomes false; a rejected request sets error and leaves forecasts,
\* performanceMetrics and trainedModelId as they were.
C30_BusyFlagsCleared ==
    /\ []((~\E t \in tasks :
              t.fn \in {"loadPriceData", "refreshData", "evaluateModel"})
              => ~app.loading)
    /\ []((~\E t \in tasks : t.fn = "trainModel") => ~app.isTraining)
    /\ []((~\E t \in tasks : t.fn = "generateForecast") => ~app.isGenerating)
    /\ \A id \in 1..MaxStarted :
           (\E t \in tasks : t.id = id) ~> ~(\E t \in tasks : t.id = id)
    /\ app.loading ~> ~app.loading
    /\ app.isTraining ~> ~app.isTraining
    /\ app.isGenerating ~> ~app.isGenerating
    /\ [][(\E t \in tasks :
               \/ SettleLoadPriceData(t, "reject")
               \/ SettleRefreshData(t, "reject")
               \/ SettleTrainModel(t, "reject")
               \/ SettleEvaluateModel(t, "reject", TRUE)
               \/ SettleGenerateForecast(t, "reject", TRUE))
              => /\ app'.error # <<>>
                 /\ app'.forecasts = app.forecasts
                 /\ app'.performanceMetrics = app.performanceMetrics
                 /\ app'.trainedModelId = app.trainedModelId]_vars

\* every call has ended, the last one by the 'Model not found' return
C30_Witness ==
    /\ started = MaxStarted
    /\ tasks = {}
    /\ app.error = <<"Model not found. Please train the model first.">>
    /\ ~app.loading /\ ~app.isTraining /\ ~app.isGenerating
    /\ app.trainedModelId = <<>>

====
